---- MODULE Spec2Model ----
(***************************************************************************)
(* RDM transaction engine of the RP2350 USB-LAN ArtNet node                *)
(* (firmware/src/rdm.c): request ring, transaction state machine,          *)
(* interrupt-fed RX ring, background discovery and Table of Devices.       *)
(***************************************************************************)
EXTENDS Integers, Sequences, FiniteSets, TLC

(* ---------------------------------------------------------------------- *)
(* Program constants                                                      *)
(* ---------------------------------------------------------------------- *)
RDM_REQUEST_BUFFER_SIZE == 5
RDM_MAX_PACKET_SIZE == 257
RDM_RETRY_COUNT == 2
RDM_RESPONSE_TIMEOUT_MS == 100
RDM_DISCOVERY_INTERVAL_MS == 10000
RDM_RX_BUF_SIZE == 512
RDM_TOD_MAX_DEVICES == 256
RDM_SC_RDM == 204
RDM_SC_SUB_MESSAGE == 1
DISC_MAX_ATTEMPTS == 64
\* artnet.c:296-298: bytes of an ArtRDM datagram before the RDM payload
ART_RDM_HEADER == 12
\* artnet.c:301: uint8_t rdm_pkt[257u]
ART_RDM_PKT_SIZE == 257
DISC_RX_TIMEOUT_MS == 30
DISC_RESP_BREAK_LEN == 7
DISC_RESP_MIN_LEN == 17
DISC_RESP_PREAMBLE == 1
U16 == 65536
\* The millisecond clock is a uint32_t that wraps.  The model keeps the
\* wrap-around arithmetic with a word of 30 bits; its clock stays far below
\* the wrap.
U32 == 1073741824

(* ---------------------------------------------------------------------- *)
(* Bounds of the model                                                    *)
(* ---------------------------------------------------------------------- *)
\* Each behaviour runs in one scenario of the environment, fixed by Init:
\* how many requests the network layer submits, which replies the bus may
\* give, how often the clock advances by one response timeout (short) and
\* by one discovery interval (long), whether it polls the Table of Devices.
\* queue scenario: many requests, a bus that answers correctly or not at all
MaxEnq == 7
QueueShort == 3
\* response scenario: few requests, every kind of reply
FewEnq == 2
FewShort == 4
\* discovery scenario: one request, two devices, long clock advances
OneEnq == 1
DiscShort == 1
DiscLong == 1
\* noisy discovery scenario: one device, no requests, one discovery
\* interval more than in the discovery scenario; the attempts of a cycle
\* during which a reply may arrive cut short
NoisyAttempts == 2
\* bytes that the task pops while a burst is still arriving
RingPops == 2
\* Art-Net scenario: ArtRDM datagrams received, response timeouts the clock
\* runs for
ArtEnq == 6
ArtShort == 1
\* progress scenario: a few requests, three kinds of reply; the network layer
\* makes its calls during the first LiveEnqUntil response timeouts after
\* boot or after a discovery interval has passed; the clock then runs on
\* for as long as these requests can take
LiveEnq == 2
LiveEnqUntil == 1

VARIABLES
  \* request ring (rdm.c:46-49)
  s_req_buf, s_req_head, s_req_tail, s_req_count,
  \* transaction state machine (rdm.c:51-60)
  s_state, s_retry, s_timeout_start_ms, s_active_idx, s_resp_buf, s_resp_len,
  \* RX ring (rdm.c:63-65)
  s_rx_buf, s_rx_head, s_rx_tail,
  \* response callback and bus-busy flag (rdm.c:80, rdm.c:28)
  s_resp_cb, g_rdm_bus_busy,
  \* Table of Devices and discovery (rdm.c:68-77)
  s_tod, s_tod_count, s_tod_changed, s_tod_prev, s_tod_prev_count,
  s_discovery_last_ms, s_discovery_active, s_disc_tod_count,
  \* where the main context is: "main" between two calls of the main loop,
  \* "disc_branch" / "disc_mute" inside the rdm_bus_receive that follows a
  \* branch / mute request of run_discovery_cycle; and the locals of
  \* run_discovery_cycle and rdm_bus_receive
  pc, d_attempt, d_resp, d_start, d_uid,
  \* environment: the devices that have been muted, and the devices
  \* that were not muted when the last discovery cycle began
  muted, cycleLive,
  \* observation (where env.watch): what the last two calls of rdm_get_tod
  \* returned that were made since the last discovery cycle began and since
  \* the last flush
  lastTod,
  \* environment: millisecond clock, bytes the bus will still deliver,
  \* serial number of the next request of the network layer
  now, wire, nextReq, env,
  \* observation: the accepted requests whose callback is outstanding, the
  \* number of rdm_bus_send calls made for a request since the last
  \* completion, the payload tag of the request sent last and the clock
  \* reading at which its rdm_bus_send returned, the bytes the
  \* bus has delivered since the last rdm_bus_send, and the calls, returns,
  \* sends and callback of the last step
  pending, nsend, sentFor, sentAt, rxlog, ev,
  \* observation: the steps that the rdm_bus_send under way has taken and
  \* the bytes that the interrupt has pushed since it began and before its
  \* flush
  tx,
  \* where the main context is inside rx_pop, rx_available or rx_flush when
  \* these are followed one memory access at a time, the value it holds in
  \* a register, and observation: the helper entered last and the bytes
  \* that the interrupt has pushed while the main context was inside it
  rxCtx,
  \* operation mode of the Art-Net layer (artnet.c:87), and observation:
  \* the ArtRDM datagram that artnet_recv handled last
  s_mode, dgram,
  \* the lease of the DHCP server (dhcp_server.c:91), and observation: the
  \* DHCP datagram handled last, its reply and the client holding the
  \* address before and after it
  s_dhcp, dhcp

\* the request ring and the transaction state machine
txVars == <<s_req_buf, s_req_head, s_req_tail, s_req_count, s_state, s_retry,
            s_timeout_start_ms, s_active_idx, s_resp_buf, s_resp_len,
            pending, nsend, sentFor, sentAt>>
rxVars == <<s_rx_buf, s_rx_head, s_rx_tail>>
todVars == <<s_tod, s_tod_count, s_tod_changed, s_tod_prev, s_tod_prev_count,
             s_discovery_last_ms, s_discovery_active, s_disc_tod_count>>
discVars == <<pc, d_attempt, d_resp, d_start, d_uid>>

netVars == <<s_mode, dgram, s_dhcp, dhcp>>

vars == <<txVars, rxVars, todVars, discVars, s_resp_cb, g_rdm_bus_busy,
          now, wire, nextReq, env, muted, cycleLive, lastTod, rxlog, ev, tx, rxCtx, netVars>>

(* ---------------------------------------------------------------------- *)
(* Bytes and buffers                                                      *)
(* ---------------------------------------------------------------------- *)
\* C arrays are indexed from 0, TLA+ sequences from 1
At(buf, i) == buf[i + 1]

Min(a, b) == IF a < b THEN a ELSE b

\* rdm_checksum: 16-bit arithmetic sum of data[0..len-1]
RECURSIVE rdm_checksum(_, _)
rdm_checksum(data, len) ==
  IF len = 0 THEN 0
  ELSE (rdm_checksum(data, len - 1) + At(data, len - 1)) % U16

\* rdm_validate_response; buf holds the len bytes collected so far
rdm_validate_response(buf, len) ==
  IF len < 4 THEN FALSE
  ELSE IF At(buf, 0) # RDM_SC_RDM \/ At(buf, 1) # RDM_SC_SUB_MESSAGE THEN FALSE
  ELSE LET msg_len == At(buf, 2) IN
       IF len < (msg_len + 2) % U16 THEN FALSE
       ELSE LET calc == rdm_checksum(buf, msg_len)
                recv == (At(buf, msg_len) * 256) + At(buf, msg_len + 1)
            IN  calc = recv

(* ---------------------------------------------------------------------- *)
(* RX ring: s_rx_buf[RDM_RX_BUF_SIZE], s_rx_head, s_rx_tail.              *)
(* A ring value is a record [buf, head, tail]; buf maps the unread cells   *)
(* (head up to tail) to their bytes.  rx_pop reads s_rx_buf[head] only    *)
(* when head # tail, so the content of the other cells is never read and  *)
(* is left out of the state.                                              *)
(* ---------------------------------------------------------------------- *)
Ring == [buf |-> s_rx_buf, head |-> s_rx_head, tail |-> s_rx_tail]

RxCell(r, i) == IF i \in DOMAIN r.buf THEN r.buf[i] ELSE 0

\* (variant: a byte that finds the ring full is stored all the same)
rx_push_overwrite(r, b) ==
  LET next == (r.tail + 1) % RDM_RX_BUF_SIZE IN
  [r EXCEPT !.buf = [j \in (DOMAIN r.buf) \cup {r.tail} |->
                       IF j = r.tail THEN b ELSE r.buf[j]],
            !.tail = next]

\* (variant: the ring counts as full one byte earlier)
rx_push_early(r, b) ==
  LET next == (r.tail + 1) % RDM_RX_BUF_SIZE IN
  IF next # r.head /\ (next + 1) % RDM_RX_BUF_SIZE # r.head
    THEN [r EXCEPT !.buf = [j \in (DOMAIN r.buf) \cup {r.tail} |->
                              IF j = r.tail THEN b ELSE r.buf[j]],
                   !.tail = next]
    ELSE r

rx_push(r, b) ==
  LET next == (r.tail + 1) % RDM_RX_BUF_SIZE IN
  IF next # r.head
    THEN [r EXCEPT !.buf = [j \in (DOMAIN r.buf) \cup {r.tail} |->
                              IF j = r.tail THEN b ELSE r.buf[j]],
                   !.tail = next]
    ELSE r

\* rx_pop: the byte returned (-1 when the ring is empty) and the ring after
rx_pop(r) ==
  IF r.head = r.tail THEN [b |-> -1, ring |-> r]
  ELSE [b |-> RxCell(r, r.head),
        ring |-> [r EXCEPT !.buf = [j \in (DOMAIN r.buf) \ {r.head} |-> r.buf[j]],
                           !.head = (r.head + 1) % RDM_RX_BUF_SIZE]]

rx_available(r) == (r.tail - r.head + RDM_RX_BUF_SIZE) % RDM_RX_BUF_SIZE

\* a flush that leaves the ring as it is
rx_flush_keep(r) == r

rx_flush(r) == [buf |-> <<>>, head |-> 0, tail |-> 0]

SetRing(r) ==
  /\ s_rx_buf' = r.buf
  /\ s_rx_head' = r.head
  /\ s_rx_tail' = r.tail

\* (variant of the collection loop below that does not test for room)
Collect_all(r, buf) ==
  LET k == rx_available(r)
      cell(i) == (r.head + i) % RDM_RX_BUF_SIZE
  IN [ring |-> [buf |-> [j \in (DOMAIN r.buf) \ {cell(i) : i \in 0..(k - 1)}
                          |-> r.buf[j]],
                head |-> cell(k),
                tail |-> r.tail],
      buf |-> buf \o [i \in 1..k |-> RxCell(r, cell(i - 1))]]

\* the collection loop of rdm_task (rdm.c:372-375): the ring and the
\* response buffer after it.  Each pass pops one byte while the ring holds
\* one and the buffer has room, so the loop moves the first
\* min(rx_available, room) bytes of the ring, in order.
Collect(r, buf) ==
  LET k == Min(rx_available(r), RDM_MAX_PACKET_SIZE - Len(buf))
      cell(i) == (r.head + i) % RDM_RX_BUF_SIZE
  IN [ring |-> [buf |-> [j \in (DOMAIN r.buf) \ {cell(i) : i \in 0..(k - 1)}
                          |-> r.buf[j]],
                head |-> cell(k),
                tail |-> r.tail],
      buf |-> buf \o [i \in 1..k |-> RxCell(r, cell(i - 1))]]

(* ---------------------------------------------------------------------- *)
(* Environment: the requests of the network layer and the bus             *)
(* ---------------------------------------------------------------------- *)
\* The k-th request of the network layer: every request carries its own
\* payload tag, originator address and port; lengths alternate between a
\* short packet and the largest one.
Req(k) == [data |-> k,
           length |-> IF k % 2 = 1 THEN 26 ELSE RDM_MAX_PACKET_SIZE,
           src_ip |-> 100 + k,
           src_port |-> 6000 + k]

\* What a device may put on the wire after a request was sent: nothing, a
\* valid response, a bad checksum, a wrong start code, a reply cut short,
\* a valid response followed by a stray byte.
ValidResponse == <<204, 1, 3, 0, 208>>
Replies == { <<>>, ValidResponse, <<204, 1, 3, 0, 209>>, <<205, 1, 3, 0, 208>>,
             <<204, 1, 3>>, <<204, 1, 3, 0, 208, 7>> }

\* Devices on the bus (UIDs) and what they answer to discovery requests.
\* A device that is not muted answers a unique-branch request with a
\* 17-byte reply: a separator, its six UID bytes as two bytes each (low
\* nibble first, in the low four bits), four trailing bytes.
DeviceA == <<0, 17, 34, 51, 68, 85>>
DeviceB == <<1, 2, 3, 4, 5, 6>>

RECURSIVE EncodeUid(_)
EncodeUid(u) ==
  IF u = <<>> THEN <<>>
  ELSE <<160 + (Head(u) % 16), 80 + (Head(u) \div 16)>> \o EncodeUid(Tail(u))

BranchReply(u) == <<170>> \o EncodeUid(u) \o <<0, 0, 0, 0>>

\* A reply cut short on the line: the first seven bytes of a branch reply
ShortReply == SubSeq(BranchReply(DeviceA), 1, DISC_RESP_BREAK_LEN)

\* the first bytes of a branch reply, one byte short of what
\* run_discovery_cycle takes for a reply (rdm.c:264)
Fragment == SubSeq(BranchReply(DeviceA), 1, DISC_RESP_BREAK_LEN - 1)

\* What the branch request of attempt number att may be answered with; the
\* line noise env.strays occurs during the first env.noise attempts of a
\* cycle, the fragments env.frags at its first attempt
BranchMenu(att) ==
  LET live == env.devices \ muted
      strays == (IF att < env.noise THEN env.strays ELSE {})
                \cup (IF att = 0 THEN env.frags ELSE {})
  IN IF live = {} THEN strays \cup {<<>>}
     ELSE {BranchReply(u) : u \in live} \cup strays

\* A request one byte longer than the largest RDM packet
LongReq == [data |-> 99, length |-> RDM_MAX_PACKET_SIZE + 1,
            src_ip |-> 99, src_port |-> 99]

\* the clock advances between two passes of the main loop: none, one
\* response timeout, one discovery interval
BoundedDeltas == {0, RDM_RESPONSE_TIMEOUT_MS, RDM_DISCOVERY_INTERVAL_MS}

\* the calls of the table API (rdm.h) that the host side may make
TodCalls == {"get_tod", "flush_tod", "tod_changed"}

\* no limit on when the network layer makes its calls
AnyTime == RDM_DISCOVERY_INTERVAL_MS \div RDM_RESPONSE_TIMEOUT_MS

Scenarios ==
  { [maxEnq |-> MaxEnq, menu |-> {<<>>, ValidResponse},
     maxShort |-> QueueShort, maxLong |-> 0, devices |-> {}, strays |-> {}, frags |-> {},
     noise |-> 0,
     tod |-> {}, watch |-> TRUE, mode |-> "MODE_RDM", enqUntil |-> AnyTime, boot |-> 0,
     deltas |-> BoundedDeltas],
    [maxEnq |-> FewEnq, menu |-> Replies,
     maxShort |-> FewShort, maxLong |-> 0, devices |-> {}, strays |-> {}, frags |-> {},
     noise |-> 0,
     tod |-> {}, watch |-> TRUE, mode |-> "MODE_RDM", enqUntil |-> AnyTime, boot |-> 0,
     deltas |-> BoundedDeltas],
    [maxEnq |-> OneEnq, menu |-> {<<>>, ValidResponse},
     maxShort |-> DiscShort, maxLong |-> DiscLong,
     devices |-> {DeviceA, DeviceB}, strays |-> {}, frags |-> {}, noise |-> 0,
     tod |-> TodCalls, watch |-> TRUE, mode |-> "MODE_RDM",
     enqUntil |-> AnyTime, boot |-> 0, deltas |-> BoundedDeltas],
    [maxEnq |-> 0, menu |-> {<<>>},
     maxShort |-> DiscShort, maxLong |-> DiscLong + 1,
     devices |-> {DeviceA}, strays |-> {ShortReply}, frags |-> {Fragment}, noise |-> NoisyAttempts,
     tod |-> {"get_tod"}, watch |-> TRUE, mode |-> "MODE_RDM",
     enqUntil |-> AnyTime, boot |-> 0, deltas |-> BoundedDeltas] }

\* The progress scenario: silence, a valid response or a damaged one after
\* every send; line noise during discovery;
\* a main loop that comes round once per response timeout.
\* main() waits for the USB host before it calls rdm_init (main.c:81-84,
\* 107), here for one discovery interval, so that the first discovery is
\* due at once.  After the last request was submitted the clock can still
\* advance by the 1 + RDM_RETRY_COUNT sends and as many response timeouts
\* that each request can take.
LiveScenario ==
  [maxEnq |-> LiveEnq, menu |-> {<<>>, ValidResponse, <<204, 1, 3, 0, 209>>},
   maxShort |-> LiveEnqUntil + 2 * (1 + RDM_RETRY_COUNT) * LiveEnq,
   maxLong |-> 1, devices |-> {}, strays |-> {<<7>>}, frags |-> {},
   noise |-> DISC_MAX_ATTEMPTS,
   tod |-> TodCalls, watch |-> FALSE, mode |-> "MODE_RDM", enqUntil |-> LiveEnqUntil,
   boot |-> RDM_DISCOVERY_INTERVAL_MS,
   deltas |-> {RDM_RESPONSE_TIMEOUT_MS}]

\* a sender that does not stop: more bytes than rdm_bus_receive has room for
Babble == [i \in 1..(RDM_MAX_PACKET_SIZE + 2) |-> 85]

\* The discovery scenario of the termination check: no requests and no
\* TOD calls; line noise that can answer every one of the branch requests
\* of a cycle, and at the first of them also a fragment, a frame that is
\* no branch reply, or a sender that does not stop; the discovery is due
\* at the first pass of the main loop.
CycleScenario ==
  [maxEnq |-> 0, menu |-> {<<>>}, maxShort |-> 0, maxLong |-> 1,
   devices |-> {}, strays |-> {ShortReply},
   frags |-> {Fragment, ValidResponse, Babble},
   noise |-> DISC_MAX_ATTEMPTS, tod |-> {}, watch |-> FALSE, mode |-> "MODE_RDM",
   enqUntil |-> 0, boot |-> RDM_DISCOVERY_INTERVAL_MS,
   deltas |-> {0}]

\* whether the network layer makes calls at this time
NetworkActive ==
  (now % RDM_DISCOVERY_INTERVAL_MS) \div RDM_RESPONSE_TIMEOUT_MS
     <= env.enqUntil

\* to_ms_since_boot(get_absolute_time()): a reading of the wrapping clock,
\* and the unsigned difference of two readings
Clock(t) == t % U32
Elapsed(n, since) == (n - since) % U32

\* What a step shows to the outside: the API call made (op, arg) and its
\* return value, the frame sent on the bus (for a request also the number
\* of bytes that the response buffer and the RX ring held when rdm_task
\* came to send it), the callback invoked together
\* with the oldest accepted request then outstanding and the number of sends
\* made for it.
NoEv == [op |-> "none", arg |-> <<>>, ret |-> <<>>, sent |-> <<>>,
         cb |-> <<>>, req |-> <<>>, attempts |-> 0]

EmptySlot == [data |-> 0, length |-> 0, src_ip |-> 0, src_port |-> 0,
              in_use |-> FALSE]

(* ---------------------------------------------------------------------- *)
(* dhcp_server.c: the single-lease DHCP server                            *)
(* ---------------------------------------------------------------------- *)
DHCP_MAGIC_COOKIE == 1669485411
DHCP_DISCOVER == 1
DHCP_OFFER == 2
DHCP_REQUEST == 3
DHCP_ACK == 5
DHCP_NAK == 6
DHCP_RELEASE == 7
DHCP_INFORM == 8
DHCP_OPT_HOST_NAME == 12
DHCP_OPT_MSG_TYPE == 53
DHCP_OPT_END == 255
DHCP_OPTIONS_LEN == 312
\* sizeof(dhcp_msg_t): 236 bytes up to file[], the magic and the options
DHCP_MSG_SIZE == 552
\* the one address handed out, CLIENT_IP_ADDR
ClientIp == <<10, 0, 0, 2>>

\* the hardware addresses of two clients, and client_mac after memset
MacA == <<2, 0, 0, 0, 0, 10>>
MacB == <<2, 0, 0, 0, 0, 11>>
ZeroMac == <<0, 0, 0, 0, 0, 0>>

\* the options field: the bytes given, zero from there to its end
OptAt(opts, i) == IF i < Len(opts) THEN opts[i + 1] ELSE 0

\* find_opt (dhcp_server.c:102-111) from place i on: the value byte of
\* option code, or none
RECURSIVE find_opt_from(_, _, _)
find_opt_from(opts, code, i) ==
  IF i >= DHCP_OPTIONS_LEN THEN <<>>
  ELSE IF OptAt(opts, i) = DHCP_OPT_END THEN <<>>
  ELSE IF OptAt(opts, i) = 0 THEN find_opt_from(opts, code, i + 1)
  ELSE IF OptAt(opts, i) = code THEN <<OptAt(opts, i + 2)>>
  ELSE find_opt_from(opts, code, i + 2 + OptAt(opts, i + 1))

find_opt(opts, code) == find_opt_from(opts, code, 0)

\* send_reply (dhcp_server.c:114-169): the reply broadcast, none when
\* pbuf_alloc has failed
send_reply(req, msg_type, yiaddr, alloc) ==
  IF ~alloc THEN <<>>
  ELSE <<[op |-> 2, xid |-> req.xid, yiaddr |-> yiaddr,
          chaddr |-> req.chaddr, type |-> msg_type]>>

\* the test of a DHCPREQUEST (dhcp_server.c:199-200)
RequestAccepted(s, req) == ~s.lease_active \/ s.client_mac = req.chaddr

\* the client recorded by a DHCPDISCOVER (dhcp_server.c:193)
DiscoverMac(s, req) == req.chaddr

\* dhcp_recv (dhcp_server.c:172-221): the server state after the message
\* and the reply sent
dhcp_recv(s, req, alloc) ==
  LET mt == find_opt(req.options, DHCP_OPT_MSG_TYPE)
      none == [s |-> s, reply |-> <<>>]
  IN
  IF req.tot_len < DHCP_MSG_SIZE THEN none
  ELSE IF req.op # 1 THEN none
  ELSE IF req.magic # DHCP_MAGIC_COOKIE THEN none
  ELSE IF mt = <<>> THEN none
  ELSE IF mt[1] = DHCP_DISCOVER
    THEN [s |-> [s EXCEPT !.client_mac = DiscoverMac(s, req)],
          reply |-> send_reply(req, DHCP_OFFER, ClientIp, alloc)]
  ELSE IF mt[1] = DHCP_REQUEST
    THEN IF RequestAccepted(s, req)
           THEN [s |-> [client_mac |-> req.chaddr, lease_active |-> TRUE],
                 reply |-> send_reply(req, DHCP_ACK, ClientIp, alloc)]
           ELSE [s |-> s,
                 reply |-> send_reply(req, DHCP_NAK, ClientIp, alloc)]
  ELSE IF mt[1] = DHCP_RELEASE
    THEN IF s.client_mac = req.chaddr
           THEN [s |-> [client_mac |-> ZeroMac, lease_active |-> FALSE],
                 reply |-> <<>>]
           ELSE none
  ELSE none

\* no DHCP message has been handled yet
NoDhcp == [msg |-> <<>>, reply |-> <<>>, held |-> <<>>, holder |-> <<>>]

(* ---------------------------------------------------------------------- *)
(* Initial state: the statics of rdm.c after rdm_init()                   *)
(* ---------------------------------------------------------------------- *)
NoTx == [steps |-> <<>>, echo |-> <<>>]

\* the main context is in none of the RX ring helpers
NoCtx == [op |-> "none", at |-> 0, reg |-> 0, last |-> "none", irqs |-> 0]

\* bytes that the interrupt pushes at most while the main context is inside
\* one of these helpers
IrqMid == 2

InitIn(scenarios) ==
  /\ env \in scenarios
  /\ s_req_buf = [i \in 0..(RDM_REQUEST_BUFFER_SIZE - 1) |-> EmptySlot]
  /\ s_req_head = 0 /\ s_req_tail = 0 /\ s_req_count = 0
  /\ s_state = "SM_IDLE" /\ s_retry = 0 /\ s_timeout_start_ms = 0
  /\ s_active_idx = 0 /\ s_resp_buf = <<>> /\ s_resp_len = 0
  /\ s_rx_buf = <<>> /\ s_rx_head = 0 /\ s_rx_tail = 0
  /\ s_resp_cb = TRUE /\ g_rdm_bus_busy = FALSE
  /\ now = env.boot /\ wire = <<>> /\ nextReq = 1
  /\ s_tod = <<>> /\ s_tod_count = 0 /\ s_tod_changed = FALSE
  /\ s_tod_prev = <<>> /\ s_tod_prev_count = 0
  /\ s_discovery_last_ms = 0 /\ s_discovery_active = FALSE
  /\ s_disc_tod_count = 0
  /\ pc = "main" /\ d_attempt = 0 /\ d_resp = <<>> /\ d_start = 0
  /\ d_uid = <<>>
  /\ muted = {} /\ cycleLive = {} /\ lastTod = <<>> /\ tx = NoTx /\ rxCtx = NoCtx
  /\ s_mode = env.mode /\ dgram = <<>>
  /\ s_dhcp = [client_mac |-> ZeroMac, lease_active |-> FALSE]
  /\ dhcp = NoDhcp
  /\ pending = <<>> /\ nsend = 0 /\ sentFor = 0 /\ sentAt = 0 /\ rxlog = <<>> /\ ev = NoEv

Init == InitIn(Scenarios)

(* ---------------------------------------------------------------------- *)
(* rdm_enqueue_request (rdm.c:309-324)                                    *)
(* ---------------------------------------------------------------------- *)
\* variants of the early returns: a sixth request fits; any length fits
EnqueueAccepts_gt(count, length) ==
  ~(count > RDM_REQUEST_BUFFER_SIZE) /\ ~(length > RDM_MAX_PACKET_SIZE)

EnqueueAccepts_nolen(count, length) == ~(count >= RDM_REQUEST_BUFFER_SIZE)

\* (variant: the capacity test left out)
EnqueueAccepts_nofull(count, length) ==
  ~(length > RDM_MAX_PACKET_SIZE)

\* the two early returns of rdm_enqueue_request
EnqueueAccepts(count, length) ==
  ~(count >= RDM_REQUEST_BUFFER_SIZE) /\ ~(length > RDM_MAX_PACKET_SIZE)

\* the slot index after the one at i
\* (variant: the index is not wrapped)
NextSlot_nowrap(i) == i + 1

NextSlot(i) == (i + 1) % RDM_REQUEST_BUFFER_SIZE

\* (variant: an accepted enqueue writes the slot at the head)
EnqueueSlot_head == s_req_head

\* the slot written by an accepted enqueue
EnqueueSlot == s_req_tail

rdm_enqueue_request(req) ==
  IF EnqueueAccepts(s_req_count, req.length)
    THEN /\ s_req_buf' = [s_req_buf EXCEPT ![EnqueueSlot] =
                            [data |-> req.data, length |-> req.length,
                             src_ip |-> req.src_ip, src_port |-> req.src_port,
                             in_use |-> TRUE]]
         /\ s_req_tail' = NextSlot(s_req_tail)
         /\ s_req_count' = s_req_count + 1
         /\ pending' = Append(pending, req)
         /\ ev' = [NoEv EXCEPT !.op = "enqueue", !.arg = <<req>>, !.ret = <<TRUE>>]
    ELSE /\ UNCHANGED <<s_req_buf, s_req_tail, s_req_count, pending>>
         /\ ev' = [NoEv EXCEPT !.op = "enqueue", !.arg = <<req>>, !.ret = <<FALSE>>]

\* The network layer submits its next request, or one that is one byte
\* longer than the largest RDM packet.
Enqueue ==
  /\ pc = "main"
  /\ nextReq <= env.maxEnq
  /\ NetworkActive
  /\ \/ rdm_enqueue_request(Req(nextReq)) /\ nextReq' = nextReq + 1
     \/ rdm_enqueue_request(LongReq) /\ nextReq' = nextReq
  /\ UNCHANGED <<s_req_head, s_state, s_retry, s_timeout_start_ms,
                 s_active_idx, s_resp_buf, s_resp_len, nsend, sentFor, sentAt, rxVars,
                 todVars, discVars, s_resp_cb, g_rdm_bus_busy, now, wire, env,
                 muted, cycleLive, tx, rxCtx, netVars, lastTod, rxlog>>

(* ---------------------------------------------------------------------- *)
(* The steps of rdm_bus_send (rdm.c:123-144), in the order of the code    *)
(* ---------------------------------------------------------------------- *)
\* (variant: the ring is flushed before the bytes are written)
rdm_bus_send_steps_early ==
  <<"busy", "dir_tx", "break_on", "break_off", "mab", "flush", "write",
    "tx_wait", "dir_rx", "settle">>

rdm_bus_send_steps ==
  <<"busy", "dir_tx", "break_on", "break_off", "mab", "write", "tx_wait",
    "dir_rx", "settle", "flush">>

\* the rdm_bus_send under way has returned
SendDone == Len(tx.steps) = Len(rdm_bus_send_steps)

(* ---------------------------------------------------------------------- *)
(* uart1_irq_handler (rdm.c:116-120): one byte of the wire is pushed      *)
(* ---------------------------------------------------------------------- *)
RxIrq ==
  /\ wire # <<>>
  /\ SetRing(rx_push(Ring, Head(wire)))
  /\ wire' = Tail(wire)
  /\ rxlog' = Append(rxlog, Head(wire))
  /\ ev' = NoEv
  /\ tx' = IF tx.steps # <<>> /\ ~SendDone
             THEN [tx EXCEPT !.echo = Append(@, Head(wire))] ELSE tx
  /\ rxCtx.op = "none" \/ rxCtx.irqs < IrqMid
  /\ rxCtx' = IF rxCtx.op # "none"
                THEN [rxCtx EXCEPT !.irqs = @ + 1] ELSE rxCtx
  /\ UNCHANGED <<txVars, todVars, discVars, s_resp_cb, g_rdm_bus_busy, now,
                 nextReq, env, muted, cycleLive, lastTod, netVars>>

(* ---------------------------------------------------------------------- *)
(* rdm_bus_send (rdm.c:123-144): bus-busy set, frame written, RX ring     *)
(* flushed after the turnaround; the devices then answer with one of      *)
(* replies.                                                               *)
(* ---------------------------------------------------------------------- *)
rdm_bus_send(r, replies) ==
  /\ g_rdm_bus_busy' = TRUE
  /\ SetRing(rx_flush(r))
  /\ wire' \in replies
  /\ rxlog' = <<>>

(* ---------------------------------------------------------------------- *)
(* rdm_task (rdm.c:348-435)                                               *)
(* ---------------------------------------------------------------------- *)
\* a variant that leaves the last queued request alone
Activates_gt1 == s_state = "SM_IDLE" /\ s_req_count > 1

\* rdm.c:352: a queued request is taken up
Activates == s_state = "SM_IDLE" /\ s_req_count > 0

\* a variant that takes up the newest request
HeadSlot_newest ==
  (s_req_tail + RDM_REQUEST_BUFFER_SIZE - 1) % RDM_REQUEST_BUFFER_SIZE

\* (variant: the request after the oldest is taken up)
HeadSlot_next == NextSlot(s_req_head)

\* rdm.c:353: the slot of the request taken up
HeadSlot == s_req_head

\* a variant that lets the wait end at every pass
WaitEnds_early(valid, elapsed) == valid \/ elapsed >= 0

\* rdm.c:379: the wait for a response ends
WaitEnds(valid, elapsed) == valid \/ elapsed >= RDM_RESPONSE_TIMEOUT_MS

\* a variant that never gives up
Retries_ever(valid, retry) == ~valid

\* a variant that allows one more retry
Retries_le(valid, retry) == ~valid /\ retry <= RDM_RETRY_COUNT

\* rdm.c:380: the request is sent again
Retries(valid, retry) == ~valid /\ retry < RDM_RETRY_COUNT

\* variants: the head stays; the head skips a slot
PopHead_keep(head, count) == [head |-> head, count |-> count - 1]

PopHead_two(head, count) ==
  [head |-> (head + 2) % RDM_REQUEST_BUFFER_SIZE, count |-> count - 1]

\* rdm.c:398-401: the queue head and count after the head slot is freed
PopHead(head, count) == [head |-> NextSlot(head), count |-> count - 1]

\* a variant that releases the bus whenever a wait ends
BusyAfterWait_clear(done, busy) == FALSE

\* a variant that never releases the bus
BusyAfterWait_keep(done, busy) == busy

\* rdm.c:403 and rdm.c:380-384: the bus-busy flag after a wait that ended
\* (done) or goes into a retry
BusyAfterWait(done, busy) == IF done THEN FALSE ELSE busy

\* rdm.c:389-395: the arguments of the response callback
CallbackArgs(valid, buf, len, req) ==
  IF valid
    THEN [null |-> FALSE, data |-> buf, length |-> len,
          dst_ip |-> req.src_ip, dst_port |-> req.src_port]
    ELSE [null |-> TRUE, data |-> <<>>, length |-> 0,
          dst_ip |-> req.src_ip, dst_port |-> req.src_port]

\* the response collected so far, after rdm.c:363 (s_resp_len = 0u)
\* (variant: the bytes of the attempt before are kept)
RespAtSend_keep(buf) == buf

RespAtSend(buf) == <<>>

\* rdm.c:358-366, entered with the active index and retry count of this call
TaskSend(n, idx, retry, ns) ==
  LET req == s_req_buf[idx] IN
  /\ rdm_bus_send(rx_flush(Ring), env.menu)
  /\ s_timeout_start_ms' = n
  /\ s_resp_len' = Len(RespAtSend(s_resp_buf))
  /\ s_resp_buf' = RespAtSend(s_resp_buf)
  /\ s_state' = "SM_WAITING_RESPONSE"
  /\ s_active_idx' = idx
  /\ s_retry' = retry
  /\ nsend' = ns + 1
  /\ sentFor' = req.data /\ sentAt' = n
  /\ ev' = [NoEv EXCEPT !.sent =
        <<[kind |-> "req", data |-> req.data, length |-> req.length,
           stale |-> [collected |-> s_resp_len,
                      queued |-> rx_available(Ring)]]>>]
  /\ UNCHANGED <<s_req_buf, s_req_head, s_req_tail, s_req_count, pending,
                 todVars, discVars, muted, cycleLive, tx, rxCtx, netVars, lastTod>>

\* rdm.c:368-406
TaskWait(n) ==
  LET elapsed == Elapsed(n, s_timeout_start_ms)
      c == Collect(Ring, s_resp_buf)
      valid == rdm_validate_response(c.buf, Len(c.buf))
      req == s_req_buf[s_active_idx]
  IN
  /\ SetRing(c.ring)
  /\ s_resp_buf' = c.buf
  /\ s_resp_len' = Len(c.buf)
  /\ UNCHANGED <<s_req_tail, s_timeout_start_ms, s_active_idx, wire,
                 todVars, discVars, muted, cycleLive, tx, rxCtx, netVars, lastTod, sentFor, sentAt, rxlog>>
  /\ IF WaitEnds(valid, elapsed)
       THEN IF Retries(valid, s_retry)
              THEN /\ s_retry' = s_retry + 1
                   /\ s_state' = "SM_SENDING"
                   /\ ev' = NoEv
                   /\ g_rdm_bus_busy' = BusyAfterWait(FALSE, g_rdm_bus_busy)
                   /\ UNCHANGED <<s_req_buf, s_req_head, s_req_count,
                                  pending, nsend>>
              ELSE /\ IF s_resp_cb
                        THEN /\ ev' = [NoEv EXCEPT
                                  !.cb = <<CallbackArgs(valid, c.buf, Len(c.buf), req)>>,
                                  !.req = IF pending = <<>> THEN <<>>
                                          ELSE <<Head(pending)>>,
                                  !.attempts = nsend]
                             /\ pending' = IF pending = <<>> THEN <<>>
                                           ELSE Tail(pending)
                        ELSE /\ ev' = NoEv
                             /\ pending' = pending
                   /\ s_req_buf' = [s_req_buf EXCEPT ![s_active_idx].in_use = FALSE]
                   /\ s_req_head' = PopHead(s_req_head, s_req_count).head
                   /\ s_req_count' = PopHead(s_req_head, s_req_count).count
                   /\ s_state' = "SM_IDLE"
                   /\ g_rdm_bus_busy' = BusyAfterWait(TRUE, g_rdm_bus_busy)
                   /\ s_retry' = s_retry
                   /\ nsend' = 0
       ELSE /\ ev' = NoEv
            /\ UNCHANGED <<s_req_buf, s_req_head, s_req_count, s_state,
                           s_retry, g_rdm_bus_busy, pending, nsend>>

(* ---------------------------------------------------------------------- *)
(* Discovery (rdm.c:185-293) and the Table of Devices                     *)
(* ---------------------------------------------------------------------- *)
Zeros(n) == [i \in 1..n |-> 0]
Fill(n, b) == [i \in 1..n |-> b]

\* (variant: low byte first)
Be16_low(v) == <<v % 256, v \div 256>>

\* the two bytes of a 16-bit value, high byte first
Be16(v) == <<v \div 256, v % 256>>

\* build_disc_unique_branch (rdm.c:192-219)
build_disc_unique_branch(lower, upper) ==
  LET msg == <<RDM_SC_RDM, RDM_SC_SUB_MESSAGE, 36>> \o Fill(6, 255)
             \o Zeros(6) \o <<0, 0, 0, 0, 0>> \o <<16, 0, 1, 12>>
             \o lower \o upper
  IN msg \o Be16(rdm_checksum(msg, 36))

\* build_disc_mute (rdm.c:222-241)
build_disc_mute(uid) ==
  LET msg == <<RDM_SC_RDM, RDM_SC_SUB_MESSAGE, 24>> \o uid
             \o Zeros(6) \o <<0, 0, 0, 0, 0>> \o <<16, 0, 2, 0>>
  IN msg \o Be16(rdm_checksum(msg, 24))

s_disc_lower == Zeros(6)
s_disc_upper == Fill(6, 255)

\* (variant: the two nibbles of each UID byte taken in the other order)
DecodeUid_swapped(resp, resp_len) ==
  IF resp_len >= DISC_RESP_MIN_LEN
    THEN [k \in 1..6 |->
            LET i == k - 1 IN
            ((At(resp, DISC_RESP_PREAMBLE + i * 2) % 16) * 16)
            + (At(resp, DISC_RESP_PREAMBLE + 1 + i * 2) % 16)]
    ELSE Zeros(6)

\* rdm.c:273-282: the UID decoded from a branch reply of resp_len bytes
DecodeUid(resp, resp_len) ==
  IF resp_len >= DISC_RESP_MIN_LEN
    THEN [k \in 1..6 |->
            LET i == k - 1 IN
            (At(resp, DISC_RESP_PREAMBLE + i * 2) % 16)
            + ((At(resp, DISC_RESP_PREAMBLE + 1 + i * 2) % 16) * 16)]
    ELSE Zeros(6)

\* a cell of a TOD array (static arrays start zeroed)
TodCell(tod, i) == IF i \in DOMAIN tod THEN tod[i] ELSE Zeros(6)

\* the first count entries of a TOD array, as a sequence
TodSeq(tod, count) == [k \in 1..count |-> TodCell(tod, k - 1)]

\* (variant: the new entry is written over the first one)
disc_tod_add_first(tod, count, uid) ==
  IF count >= RDM_TOD_MAX_DEVICES THEN [tod |-> tod, count |-> count]
  ELSE [tod |-> [j \in (DOMAIN tod) \cup {0, count} |->
                   IF j = 0 THEN uid ELSE TodCell(tod, j)],
        count |-> count + 1]

\* disc_tod_add (rdm.c:244-247)
disc_tod_add(tod, count, uid) ==
  IF count >= RDM_TOD_MAX_DEVICES THEN [tod |-> tod, count |-> count]
  ELSE [tod |-> [j \in (DOMAIN tod) \cup {count} |->
                   IF j = count THEN uid ELSE tod[j]],
        count |-> count + 1]

\* memcpy(s_tod_prev, s_tod, sizeof(rdm_tod_entry_t) * s_tod_count)
TodCopy(prev, tod, count) ==
  [j \in (DOMAIN prev) \cup (0..(count - 1)) |->
     IF j < count THEN TodCell(tod, j) ELSE prev[j]]

\* (variant: only the counts are compared)
TodDiffers_count(tod, count, prev, prev_count) == count # prev_count

\* rdm.c:425-427
TodDiffers(tod, count, prev, prev_count) ==
  \/ count # prev_count
  \/ \E j \in 0..(count - 1) : TodCell(tod, j) # TodCell(prev, j)

\* the end-of-packet test of rdm_bus_receive (rdm.c:152, 164-167)
ReceiveDone(buf, max_len) ==
  \/ ~(Len(buf) < max_len)
  \/ /\ Len(buf) >= 3
     /\ At(buf, 0) = RDM_SC_RDM /\ At(buf, 1) = RDM_SC_SUB_MESSAGE
     /\ Len(buf) = (At(buf, 2) + 2) % U16

\* what a mute request addressed to uid is answered with
MuteMenu(uid) == IF uid \in env.devices THEN {<<>>, ValidResponse} ELSE {<<>>}

\* One iteration of the loop of run_discovery_cycle begins (rdm.c:257-262):
\* the branch request is sent and rdm_bus_receive entered.
DiscBranch(r, att, tod, count, n) ==
  LET pkt == build_disc_unique_branch(s_disc_lower, s_disc_upper) IN
  /\ rdm_bus_send(r, BranchMenu(att))
  /\ pc' = "disc_branch"
  /\ d_attempt' = att /\ d_resp' = <<>> /\ d_start' = n /\ d_uid' = <<>>
  /\ s_tod' = tod /\ s_disc_tod_count' = count
  /\ ev' = [NoEv EXCEPT !.sent = <<[kind |-> "disc", data |-> pkt, length |-> Len(pkt)]>>]
  /\ UNCHANGED <<s_tod_count, s_tod_changed, s_discovery_last_ms, muted>>

\* the changed flag after a cycle (rdm.c:425-429): set when the table
\* differs from the previous one, left alone otherwise
\* (variant: assigned the outcome of the comparison)
ChangedAfterCycle_assign(differs, changed) == differs

ChangedAfterCycle(differs, changed) == IF differs THEN TRUE ELSE changed

\* run_discovery_cycle has returned (rdm.c:422-433)
DiscFinish(r, tod, count, n) ==
  /\ s_tod' = tod /\ s_disc_tod_count' = count
  /\ s_tod_count' = count
  /\ s_tod_changed' =
       ChangedAfterCycle(TodDiffers(tod, count, s_tod_prev, s_tod_prev_count),
                         s_tod_changed)
  /\ s_discovery_last_ms' = n
  /\ s_discovery_active' = FALSE
  /\ g_rdm_bus_busy' = FALSE
  /\ SetRing(r)
  /\ pc' = "main"
  /\ d_attempt' = 0 /\ d_resp' = <<>> /\ d_start' = 0 /\ d_uid' = <<>>
  /\ ev' = NoEv
  /\ UNCHANGED <<s_tod_prev, s_tod_prev_count, wire, muted, cycleLive, tx, rxCtx, netVars, lastTod, rxlog>>

\* the loop of run_discovery_cycle goes on after the iteration numbered
\* attempt (rdm.c:257: attempt++, attempt < 64u)
\* (variant: one iteration more)
LoopContinues_le(attempt) == attempt + 1 <= DISC_MAX_ATTEMPTS

LoopContinues(attempt) == attempt + 1 < DISC_MAX_ATTEMPTS

\* rdm_bus_receive has returned buf at clock reading n, the ring being r
\* (rdm.c:264-291)
AfterReceive(r, buf, n) ==
  IF pc = "disc_branch"
    THEN IF Len(buf) < DISC_RESP_BREAK_LEN
           THEN DiscFinish(r, s_tod, s_disc_tod_count, n)
           ELSE LET uid == DecodeUid(buf, Len(buf))
                    pkt == build_disc_mute(uid)
                IN /\ rdm_bus_send(r, MuteMenu(uid))
                   /\ muted' = muted \cup ({uid} \cap env.devices)
                   /\ cycleLive' = cycleLive /\ lastTod' = lastTod /\ tx' = tx /\ UNCHANGED <<rxCtx, netVars>>
                   /\ pc' = "disc_mute"
                   /\ d_uid' = uid /\ d_resp' = <<>> /\ d_start' = n
                   /\ d_attempt' = d_attempt
                   /\ ev' = [NoEv EXCEPT !.sent =
                         <<[kind |-> "disc", data |-> pkt, length |-> Len(pkt)]>>]
                   /\ UNCHANGED todVars
    ELSE LET added == disc_tod_add(s_tod, s_disc_tod_count, d_uid) IN
         IF LoopContinues(d_attempt)
           THEN /\ DiscBranch(r, d_attempt + 1, added.tod, added.count, n)
                /\ UNCHANGED <<s_tod_prev, s_tod_prev_count, s_discovery_active,
                               cycleLive, tx, rxCtx, netVars, lastTod>>
           ELSE DiscFinish(r, added.tod, added.count, n)

\* rdm_bus_receive takes one byte from the RX ring (rdm.c:156-167)
DiscRxByte ==
  /\ pc # "main"
  /\ s_rx_head # s_rx_tail
  /\ LET p == rx_pop(Ring)
         buf == Append(d_resp, p.b)
     IN IF ReceiveDone(buf, RDM_MAX_PACKET_SIZE)
          THEN AfterReceive(p.ring, buf, now)
          ELSE /\ SetRing(p.ring)
               /\ d_resp' = buf
               /\ ev' = NoEv
               /\ UNCHANGED <<todVars, pc, d_attempt, d_start, d_uid, wire,
                              muted, cycleLive, tx, rxCtx, netVars, lastTod, g_rdm_bus_busy, rxlog>>
  /\ UNCHANGED <<txVars, s_resp_cb, nextReq, env, now>>

\* rdm_bus_receive sees its timeout elapsed (rdm.c:153-154).  The loop polls
\* the ring without pause and a reply takes far less than the 30 ms window,
\* so the window closes only after the wire has gone quiet and the ring has
\* been drained.
DiscRxTimeout ==
  /\ pc # "main"
  /\ wire = <<>> /\ s_rx_head = s_rx_tail
  /\ \E n \in {Clock(now + DISC_RX_TIMEOUT_MS + 1)} :
       /\ Elapsed(n, d_start) > DISC_RX_TIMEOUT_MS
       /\ now' = n
       /\ AfterReceive(Ring, d_resp, n)
  /\ UNCHANGED <<txVars, s_resp_cb, nextReq, env>>

\* the test for a discovery cycle being due (rdm.c:410)
\* (variant: the interval has to be exceeded)
DiscoveryDue_gt(n, last) == Elapsed(n, last) > RDM_DISCOVERY_INTERVAL_MS

DiscoveryDue(n, last) == Elapsed(n, last) >= RDM_DISCOVERY_INTERVAL_MS

\* rdm.c:408-434
TaskIdle(n) ==
  LET due == DiscoveryDue(n, s_discovery_last_ms)
      active == s_discovery_active \/ due
  IN
  /\ UNCHANGED txVars
  /\ IF active
       THEN /\ s_discovery_active' = TRUE
            /\ s_tod_prev' = TodCopy(s_tod_prev, s_tod, s_tod_count)
            /\ s_tod_prev_count' = s_tod_count
            /\ DiscBranch(Ring, 0, s_tod, 0, n)
            /\ cycleLive' = env.devices \ muted /\ lastTod' = <<>> /\ tx' = tx /\ UNCHANGED <<rxCtx, netVars>>
       ELSE /\ ev' = NoEv
            /\ UNCHANGED <<rxVars, todVars, discVars, g_rdm_bus_busy, wire,
                           muted, cycleLive, tx, rxCtx, netVars, lastTod, rxlog>>

(* ---------------------------------------------------------------------- *)
(* rdm_get_tod, rdm_flush_tod, rdm_tod_changed (rdm.c:330-344)            *)
(* ---------------------------------------------------------------------- *)
\* the changed flag after rdm_get_tod (rdm.c:333)
\* (variant: the flag is left as it is)
ChangedAfterGet_keep(changed) == changed

ChangedAfterGet(changed) == FALSE

GetTod ==
  /\ pc = "main"
  /\ "get_tod" \in env.tod /\ NetworkActive
  /\ s_tod_changed' = ChangedAfterGet(s_tod_changed)
  /\ ev' = [NoEv EXCEPT !.op = "get_tod",
                         !.ret = <<[entries |-> TodSeq(s_tod, s_tod_count),
                                    count |-> s_tod_count]>>]
  /\ lastTod' = IF env.watch
                  THEN (IF lastTod = <<>> THEN <<>>
                        ELSE <<lastTod[Len(lastTod)]>>)
                       \o <<[entries |-> TodSeq(s_tod, s_tod_count),
                             count |-> s_tod_count]>>
                  ELSE lastTod
  /\ UNCHANGED <<txVars, rxVars, discVars, s_tod, s_tod_count, s_tod_prev,
                 s_tod_prev_count, s_discovery_last_ms, s_discovery_active,
                 s_disc_tod_count, s_resp_cb, g_rdm_bus_busy, now, wire,
                 nextReq, env, muted, cycleLive, tx, rxCtx, netVars, rxlog>>

\* the table count after rdm_flush_tod (rdm.c:337)
\* (variant: the count is left as it is)
CountAfterFlush_keep(count) == count

CountAfterFlush(count) == 0

FlushTod ==
  /\ pc = "main"
  /\ "flush_tod" \in env.tod /\ NetworkActive
  /\ s_tod_count' = CountAfterFlush(s_tod_count)
  /\ s_tod_changed' = TRUE
  /\ s_discovery_last_ms' = 0
  /\ ev' = [NoEv EXCEPT !.op = "flush_tod"]
  /\ lastTod' = <<>>
  /\ UNCHANGED <<txVars, rxVars, discVars, s_tod, s_tod_prev,
                 s_tod_prev_count, s_discovery_active, s_disc_tod_count,
                 s_resp_cb, g_rdm_bus_busy, now, wire, nextReq, env, muted,
                 cycleLive, tx, rxCtx, netVars, rxlog>>

\* the changed flag after rdm_tod_changed (rdm.c:342-344)
\* (variant: the flag is cleared by the peek)
ChangedAfterPeek_clear(changed) == FALSE

ChangedAfterPeek(changed) == changed

TodChanged ==
  /\ pc = "main"
  /\ "tod_changed" \in env.tod /\ NetworkActive
  /\ ev' = [NoEv EXCEPT !.op = "tod_changed", !.ret = <<s_tod_changed>>]
  /\ s_tod_changed' = ChangedAfterPeek(s_tod_changed)
  /\ UNCHANGED <<txVars, rxVars, s_tod, s_tod_count, s_tod_prev,
                 s_tod_prev_count, s_discovery_last_ms, s_discovery_active,
                 s_disc_tod_count, discVars, s_resp_cb,
                 g_rdm_bus_busy, now, wire, nextReq, env, muted, cycleLive, tx, rxCtx, netVars,
                 lastTod, rxlog>>

\* the slot a retry sends from (rdm.c:359)
\* (variant: the slot written last)
ActiveSlot_newest ==
  (s_req_tail + RDM_REQUEST_BUFFER_SIZE - 1) % RDM_REQUEST_BUFFER_SIZE

ActiveSlot == s_active_idx

rdm_task(n) ==
  IF Activates \/ s_state = "SM_SENDING"
    THEN IF Activates
           THEN TaskSend(n, HeadSlot, 0, 0)
           ELSE TaskSend(n, ActiveSlot, s_retry, nsend)
    ELSE IF s_state = "SM_WAITING_RESPONSE"
           THEN TaskWait(n)
           ELSE TaskIdle(n)

\* The clock readings the environment may produce next
ClockDeltas == env.deltas

ClockMay(d) ==
  LET t == Clock(now + d) IN
  /\ (t % RDM_DISCOVERY_INTERVAL_MS) \div RDM_RESPONSE_TIMEOUT_MS <= env.maxShort
  /\ t \div RDM_DISCOVERY_INTERVAL_MS <= env.maxLong

\* One pass of the main loop: the clock has advanced by d since the last
\* call of rdm_task
TickBy(d) ==
  /\ pc = "main"
  /\ ClockMay(d)
  /\ now' = Clock(now + d)
  /\ rdm_task(Clock(now + d))
  /\ UNCHANGED <<s_resp_cb, nextReq, env>>

Tick == \E d \in ClockDeltas : TickBy(d)


Next ==
  \/ Enqueue \/ RxIrq \/ Tick \/ DiscRxByte \/ DiscRxTimeout
  \/ GetTod \/ FlushTod \/ TodChanged

Spec == Init /\ [][Next]_vars

\* The progress scenario under the scheduling the firmware has: the main
\* loop (main.c:119-140) keeps calling rdm_task while the clock advances,
\* the UART interrupt takes every byte that is on the wire, and the polling
\* loop of rdm_bus_receive keeps running until it returns.
InitLive == InitIn({LiveScenario})

TickAdvances == \E d \in ClockDeltas \ {0} : TickBy(d)

SpecLive ==
  /\ InitLive /\ [][Next]_vars
  /\ WF_vars(TickAdvances) /\ WF_vars(RxIrq)
  /\ WF_vars(DiscRxByte) /\ WF_vars(DiscRxTimeout)

\* Discovery alone, under the same scheduling: the interrupt takes every
\* byte that is on the wire, and the polling loop of rdm_bus_receive keeps
\* running, its clock advancing, until it returns.
InitCycle == InitIn({CycleScenario})

NextCycle == RxIrq \/ Tick \/ DiscRxByte \/ DiscRxTimeout

SpecCycle ==
  /\ InitCycle /\ [][NextCycle]_vars
  /\ WF_vars(RxIrq) /\ WF_vars(DiscRxByte) /\ WF_vars(DiscRxTimeout)

(* ---------------------------------------------------------------------- *)
(* rdm_bus_send step by step, the interrupt running in between            *)
(* ---------------------------------------------------------------------- *)
\* the bytes of a frame that the receiver hears while the node sends
SendEcho == <<RDM_SC_RDM, RDM_SC_SUB_MESSAGE, 36>>

sendFrame == <<txVars, todVars, s_resp_cb, now, nextReq, env, muted, netVars,
               rxCtx,
               cycleLive, lastTod, ev, pc, d_attempt, d_start, d_uid>>

\* rdm_bus_send takes its next step.  Writing the frame puts its echo on
\* the receiver, or nothing when the receiver is off; an answer of the
\* device starts once the frame is out and the line has been turned round.
SendStep ==
  /\ ~SendDone
  /\ LET step == rdm_bus_send_steps[Len(tx.steps) + 1] IN
     /\ tx' = [tx EXCEPT !.steps = Append(@, step)]
     /\ g_rdm_bus_busy' = (step = "busy" \/ g_rdm_bus_busy)
     /\ IF step = "flush"
          THEN SetRing(rx_flush(Ring)) /\ rxlog' = <<>>
          ELSE UNCHANGED <<rxVars, rxlog>>
     /\ \E more \in (IF step = "write" THEN {<<>>, SendEcho}
                      ELSE IF step = "flush" THEN {<<>>, ValidResponse}
                      ELSE {<<>>}) : wire' = wire \o more
  /\ UNCHANGED <<sendFrame, d_resp>>

\* the caller collects one byte of the response (rdm.c:156-160, 372-375)
SendCollect ==
  /\ SendDone
  /\ s_rx_head # s_rx_tail
  /\ LET p == rx_pop(Ring) IN
       SetRing(p.ring) /\ d_resp' = Append(d_resp, p.b)
  /\ UNCHANGED <<sendFrame, g_rdm_bus_busy, wire, rxlog, tx>>

\* the caller has finished with the response and calls rdm_bus_send again
SendNext ==
  /\ SendDone
  /\ wire = <<>>
  /\ tx' = NoTx /\ d_resp' = <<>> /\ g_rdm_bus_busy' = FALSE
  /\ UNCHANGED <<sendFrame, rxVars, wire, rxlog>>

InitSend == InitIn({CycleScenario})

NextSend == SendStep \/ RxIrq \/ SendCollect \/ SendNext

SpecSend == InitSend /\ [][NextSend]_vars

(* ---------------------------------------------------------------------- *)
(* artnet_recv (artnet.c:217-335): ArtCommand MODE=DMX / MODE=RDM and     *)
(* ArtRDM datagrams, with rdm_task                                        *)
(* ---------------------------------------------------------------------- *)
\* The node as main() leaves it (main.c:111): DMX mode, nothing queued;
\* no device answers on the bus.
ArtScenario ==
  [maxEnq |-> ArtEnq, menu |-> {<<>>},
   maxShort |-> ArtShort, maxLong |-> 0, devices |-> {}, strays |-> {},
   frags |-> {}, noise |-> 0, tod |-> {}, watch |-> FALSE,
   mode |-> "MODE_DMX", enqUntil |-> AnyTime, boot |-> 0,
   deltas |-> {0, RDM_RESPONSE_TIMEOUT_MS}]

\* The total lengths that the k-th ArtRDM datagram may have: the first one
\* may stop short of the payload, carry none, or carry a short payload, a
\* payload of the largest RDM packet, or one byte more; the others carry
\* the k-th request.
TotLens(k) ==
  IF k = 1
    THEN {ART_RDM_HEADER - 2, ART_RDM_HEADER, ART_RDM_HEADER + 26,
          ART_RDM_HEADER + RDM_MAX_PACKET_SIZE,
          ART_RDM_HEADER + RDM_MAX_PACKET_SIZE + 1}
    ELSE {ART_RDM_HEADER + Req(k).length}

\* The k-th ArtRDM datagram, of tot_len bytes: its payload (tagged as that
\* of LongReq when it is longer than the largest RDM packet), and the
\* address and port it comes from
Datagram(k, tot_len) ==
  [tot_len |-> tot_len,
   payload |-> IF tot_len - ART_RDM_HEADER > RDM_MAX_PACKET_SIZE
                 THEN LongReq.data ELSE Req(k).data,
   src_ip |-> Req(k).src_ip, src_port |-> Req(k).src_port]

\* artnet.c:295 (variant: ArtRDM is handled in every mode)
ArtRdmHandled_any(mode) == TRUE

\* artnet.c:295: ArtRDM is handled in RDM mode only
ArtRdmHandled(mode) == mode = "MODE_RDM"

\* artnet.c:298: the payload length of a datagram of tot_len bytes
ArtPayloadLen(tot_len) ==
  IF tot_len > ART_RDM_HEADER THEN (tot_len - ART_RDM_HEADER) % U16 ELSE 0

\* artnet.c:301-302: the length handed on with rdm_pkt[257]
ArtRdmLength(payload_len) ==
  IF payload_len > ART_RDM_PKT_SIZE THEN ART_RDM_PKT_SIZE ELSE payload_len

\* artnet_recv, case OP_RDM (artnet.c:294-310)
ArtRdm ==
  /\ pc = "main"
  /\ nextReq <= env.maxEnq
  /\ NetworkActive
  /\ \E tot_len \in TotLens(nextReq) :
       LET d == Datagram(nextReq, tot_len)
           payload_len == ArtPayloadLen(tot_len)
       IN /\ dgram' = <<d>>
          /\ IF /\ ArtRdmHandled(s_mode)
                /\ ~(tot_len < ART_RDM_HEADER)
                /\ ~(payload_len = 0)
               THEN rdm_enqueue_request(
                      [data |-> d.payload,
                       length |-> ArtRdmLength(payload_len),
                       src_ip |-> d.src_ip, src_port |-> d.src_port])
               ELSE /\ ev' = NoEv
                    /\ UNCHANGED <<s_req_buf, s_req_tail, s_req_count,
                                   pending>>
  /\ nextReq' = nextReq + 1
  /\ UNCHANGED <<s_req_head, s_state, s_retry, s_timeout_start_ms,
                 s_active_idx, s_resp_buf, s_resp_len, nsend, sentFor, sentAt, rxVars,
                 todVars, discVars, s_resp_cb, g_rdm_bus_busy, now, wire, env,
                 muted, cycleLive, tx, rxCtx, s_mode, s_dhcp, dhcp, lastTod, rxlog>>

\* artnet_recv, case OP_COMMAND with "MODE=DMX" or "MODE=RDM"
\* (artnet.c:282-285), and artnet_set_mode (artnet.c:354-355)
ArtCommand ==
  /\ pc = "main"
  /\ NetworkActive
  /\ \E mode \in {"MODE_DMX", "MODE_RDM"} : s_mode' = mode
  /\ ev' = NoEv
  /\ UNCHANGED <<txVars, rxVars, todVars, discVars, s_resp_cb,
                 g_rdm_bus_busy, now, wire, nextReq, env, muted, cycleLive,
                 lastTod, rxlog, tx, rxCtx, dgram, s_dhcp, dhcp>>

InitArtnet == InitIn({ArtScenario})

NextArtnet == ArtCommand \/ ArtRdm \/ Tick

SpecArtnet == InitArtnet /\ [][NextArtnet]_vars

(* ---------------------------------------------------------------------- *)
(* The RX ring under a burst: the interrupt pushes more bytes than the    *)
(* ring has cells while the task pops a few of them, and the rest after   *)
(* ---------------------------------------------------------------------- *)
\* the bytes of the burst: two more than the ring has cells
Burst == [i \in 1..(RDM_RX_BUF_SIZE + 2) |-> i % 256]

\* rx_flush (rdm.c:111-113), after which the bus delivers the burst
RingBurst ==
  /\ wire = <<>> /\ rxCtx = NoCtx
  /\ SetRing(rx_flush(Ring))
  /\ wire' = Burst /\ rxlog' = <<>> /\ d_resp' = <<>>
  /\ UNCHANGED <<sendFrame, g_rdm_bus_busy, tx>>

\* rx_pop (rdm.c:100-105) of a byte that is there
RingPop ==
  /\ s_rx_head # s_rx_tail
  /\ Len(d_resp) < RingPops \/ wire = <<>>
  /\ LET p == rx_pop(Ring) IN
       SetRing(p.ring) /\ d_resp' = Append(d_resp, p.b)
  /\ UNCHANGED <<sendFrame, g_rdm_bus_busy, wire, rxlog, tx>>

InitRing == InitIn({CycleScenario})

NextRing == RingBurst \/ RxIrq \/ RingPop

SpecRing == InitRing /\ [][NextRing]_vars

(* ---------------------------------------------------------------------- *)
(* rx_pop, rx_available and rx_flush one memory access at a time, the     *)
(* interrupt (rx_push) running between any two of them                    *)
(* ---------------------------------------------------------------------- *)
\* The burst of the section above arrives while the main context pops a
\* few bytes, asks for the fill level, and pops the rest when the line is
\* quiet; it flushes the ring while the last bytes of the burst come in
\* or after them.  Here s_rx_buf keeps every cell that was written.
IrqPops == 2
IrqFlushBy == 3

ctxFrame == <<txVars, todVars, s_resp_cb, now, nextReq, env, muted, netVars,
              cycleLive, lastTod, ev, pc, d_attempt, d_start, d_uid,
              g_rdm_bus_busy, tx>>

\* the main context enters a helper / returns from it (the register is
\* the caller's again)
CtxEnter(op, at, reg) ==
  [op |-> op, at |-> at, reg |-> reg, last |-> op, irqs |-> 0]
CtxReturn == [rxCtx EXCEPT !.op = "none", !.at = 0, !.reg = 0]

\* rdm.c:103: the read index after a pop
\* (variant: the index is not wrapped)
RxPopAdvance_nowrap(head) == head + 1

RxPopAdvance(head) == (head + 1) % RDM_RX_BUF_SIZE

\* rx_pop, rdm.c:101: the test for an empty ring; -1 is returned at once
RxPopTest ==
  /\ rxCtx.op = "none"
  /\ Len(d_resp) < IrqPops \/ wire = <<>>
  /\ rxCtx' = IF s_rx_head = s_rx_tail
                THEN [CtxEnter("pop", 0, 0) EXCEPT !.op = "none"]
                ELSE CtxEnter("pop", 1, 0)
  /\ UNCHANGED <<ctxFrame, rxVars, wire, rxlog, d_resp>>

\* rx_pop, rdm.c:102: the byte at the read index is loaded
RxPopLoad ==
  /\ rxCtx.op = "pop" /\ rxCtx.at = 1
  /\ rxCtx' = [rxCtx EXCEPT !.at = 2, !.reg = RxCell(Ring, s_rx_head)]
  /\ UNCHANGED <<ctxFrame, rxVars, wire, rxlog, d_resp>>

\* rx_pop, rdm.c:103-104: the read index is advanced, the byte returned
RxPopStore ==
  /\ rxCtx.op = "pop" /\ rxCtx.at = 2
  /\ s_rx_head' = RxPopAdvance(s_rx_head)
  /\ d_resp' = Append(d_resp, rxCtx.reg)
  /\ rxCtx' = CtxReturn
  /\ UNCHANGED <<ctxFrame, s_rx_buf, s_rx_tail, wire, rxlog>>

\* rx_available, rdm.c:108: the first of the two indices is read; the
\* order of the two reads is the compiler's (at = 1: s_rx_tail first)
RxAvailFirst ==
  /\ rxCtx.op = "none"
  /\ Len(d_resp) < IrqPops \/ wire = <<>>
  /\ \E first \in {1, 2} :
       rxCtx' = CtxEnter("available", first,
                         IF first = 1 THEN s_rx_tail ELSE s_rx_head)
  /\ UNCHANGED <<ctxFrame, rxVars, wire, rxlog, d_resp>>

\* rx_available, rdm.c:108: the other index is read, the level returned
\* to the caller
RxAvailSecond ==
  /\ rxCtx.op = "available"
  /\ rxCtx' = CtxReturn
  /\ UNCHANGED <<ctxFrame, rxVars, wire, rxlog, d_resp>>

\* rx_flush, rdm.c:112 (s_rx_head = s_rx_tail = 0u): the first of the two
\* stores; their order is the compiler's (at = 1: s_rx_tail first)
RxFlushFirst ==
  /\ rxCtx.op = "none"
  /\ Len(wire) <= IrqFlushBy
  /\ \E first \in {1, 2} :
       /\ rxCtx' = CtxEnter("flush", first, 0)
       /\ IF first = 1 THEN s_rx_tail' = 0 /\ s_rx_head' = s_rx_head
                       ELSE s_rx_head' = 0 /\ s_rx_tail' = s_rx_tail
  /\ rxlog' = <<>> /\ d_resp' = <<>>
  /\ UNCHANGED <<ctxFrame, s_rx_buf, wire>>

\* rx_flush, rdm.c:112: the second store
RxFlushSecond ==
  /\ rxCtx.op = "flush"
  /\ IF rxCtx.at = 1 THEN s_rx_head' = 0 /\ s_rx_tail' = s_rx_tail
                     ELSE s_rx_tail' = 0 /\ s_rx_head' = s_rx_head
  /\ rxCtx' = CtxReturn
  /\ UNCHANGED <<ctxFrame, s_rx_buf, wire, rxlog, d_resp>>

InitIrq == InitIn({CycleScenario})

NextIrq ==
  \/ RingBurst \/ RxIrq
  \/ RxPopTest \/ RxPopLoad \/ RxPopStore
  \/ RxAvailFirst \/ RxAvailSecond
  \/ RxFlushFirst \/ RxFlushSecond

SpecIrq == InitIrq /\ [][NextIrq]_vars

(* ---------------------------------------------------------------------- *)
(* Buffers under a sender that does not stop: one request answered with   *)
(* more bytes than the response buffer holds, and the discovery cycle     *)
(* with an answer at each of its attempts                                 *)
(* ---------------------------------------------------------------------- *)
\* one request; every send is answered by the sender that does not stop;
\* the main loop comes round at once or after a response timeout, the
\* clock advancing by one response timeout in all
FloodScenario ==
  [maxEnq |-> 1, menu |-> {Babble}, maxShort |-> 1, maxLong |-> 0,
   devices |-> {}, strays |-> {}, frags |-> {}, noise |-> 0, tod |-> {},
   watch |-> FALSE, mode |-> "MODE_RDM", enqUntil |-> AnyTime, boot |-> 0,
   deltas |-> {0, RDM_RESPONSE_TIMEOUT_MS}]

InitBounds == InitIn({CycleScenario, FloodScenario})

NextBounds == Enqueue \/ RxIrq \/ Tick \/ DiscRxByte \/ DiscRxTimeout

SpecBounds == InitBounds /\ [][NextBounds]_vars

(* ---------------------------------------------------------------------- *)
(* The two packet builders of the discovery on their own, for UIDs with   *)
(* the smallest and the largest bytes and for the UIDs of the devices     *)
(* ---------------------------------------------------------------------- *)
BuildUids == [1..6 -> {0, 255}] \cup {DeviceA, DeviceB}

\* build_disc_unique_branch (rdm.c:192-219) is called with bounds lower and
\* upper, once in a behaviour; observation: the bounds and the packet built
BuildBranch ==
  /\ ev = NoEv
  /\ \E lower \in BuildUids, upper \in BuildUids :
       LET pkt == build_disc_unique_branch(lower, upper) IN
       ev' = [NoEv EXCEPT !.op = "build", !.arg = <<lower, upper>>,
                          !.sent = <<[kind |-> "disc", data |-> pkt,
                                      length |-> Len(pkt)]>>]
  /\ UNCHANGED <<txVars, rxVars, todVars, discVars, s_resp_cb,
                 g_rdm_bus_busy, now, wire, nextReq, env, muted, cycleLive,
                 lastTod, rxlog, tx, rxCtx, netVars>>

\* build_disc_mute (rdm.c:222-241) is called with uid
BuildMute ==
  /\ ev = NoEv
  /\ \E uid \in BuildUids :
       LET pkt == build_disc_mute(uid) IN
       ev' = [NoEv EXCEPT !.op = "build", !.arg = <<uid>>,
                          !.sent = <<[kind |-> "disc", data |-> pkt,
                                      length |-> Len(pkt)]>>]
  /\ UNCHANGED <<txVars, rxVars, todVars, discVars, s_resp_cb,
                 g_rdm_bus_busy, now, wire, nextReq, env, muted, cycleLive,
                 lastTod, rxlog, tx, rxCtx, netVars>>

InitBuild == InitIn({CycleScenario})

NextBuild == BuildBranch \/ BuildMute

SpecBuild == InitBuild /\ [][NextBuild]_vars

(* ---------------------------------------------------------------------- *)
(* The DHCP server on its own: messages of two clients in any order       *)
(* ---------------------------------------------------------------------- *)
\* the options fields that the clients send with message type t
DhcpOptions(t) ==
  {<<DHCP_OPT_MSG_TYPE, 1, t, DHCP_OPT_END>>,
   <<0, DHCP_OPT_HOST_NAME, 2, 80, 67, DHCP_OPT_MSG_TYPE, 1, t, DHCP_OPT_END>>}

\* BOOTREQUESTs of full size from the two clients
DhcpRequests ==
  {[tot_len |-> DHCP_MSG_SIZE, op |-> 1, magic |-> DHCP_MAGIC_COOKIE,
    xid |-> x, chaddr |-> m, options |-> o] :
     x \in {1, 2}, m \in {MacA, MacB},
     o \in UNION {DhcpOptions(t) : t \in {DHCP_DISCOVER, DHCP_REQUEST,
                                          DHCP_RELEASE, DHCP_INFORM}}}

\* datagrams that dhcp_recv drops: too short, a BOOTREPLY, a wrong magic
\* cookie, no message-type option
DhcpDropped ==
  LET ok == [tot_len |-> DHCP_MSG_SIZE, op |-> 1, magic |-> DHCP_MAGIC_COOKIE,
             xid |-> 1, chaddr |-> MacB,
             options |-> <<DHCP_OPT_MSG_TYPE, 1, DHCP_REQUEST, DHCP_OPT_END>>]
  IN {[ok EXCEPT !.tot_len = DHCP_MSG_SIZE - 1], [ok EXCEPT !.op = 2],
      [ok EXCEPT !.magic = 0], [ok EXCEPT !.options = <<DHCP_OPT_END>>]}

\* the message type that a datagram carries, 0 when it carries none
MsgType(req) ==
  LET mt == find_opt(req.options, DHCP_OPT_MSG_TYPE)
  IN IF mt = <<>> THEN 0 ELSE mt[1]

\* dhcp_recv (dhcp_server.c:172-221) for one datagram.  Observation: the
\* datagram, the reply, and the client to which the address was
\* acknowledged last with no DHCPRELEASE of that client since, before
\* (held) and after (holder) the datagram
DhcpRecv ==
  \E req \in DhcpRequests \cup DhcpDropped, alloc \in BOOLEAN :
    LET r == dhcp_recv(s_dhcp, req, alloc)
        acked == r.reply # <<>> /\ r.reply[1].type = DHCP_ACK
        released == /\ req \in DhcpRequests
                    /\ MsgType(req) = DHCP_RELEASE
                    /\ dhcp.holder = <<req.chaddr>>
    IN /\ s_dhcp' = r.s
       /\ dhcp' = [msg |-> <<req>>, reply |-> r.reply, held |-> dhcp.holder,
                   holder |-> IF acked THEN <<req.chaddr>>
                              ELSE IF released THEN <<>>
                              ELSE dhcp.holder]
       /\ UNCHANGED <<txVars, rxVars, todVars, discVars, s_resp_cb,
                      g_rdm_bus_busy, now, wire, nextReq, env, muted,
                      cycleLive, lastTod, rxlog, ev, tx, rxCtx, s_mode, dgram>>

InitDhcp == InitIn({CycleScenario})

NextDhcp == DhcpRecv

SpecDhcp == InitDhcp /\ [][NextDhcp]_vars

(* ---------------------------------------------------------------------- *)
(* Properties                                                             *)
(* ---------------------------------------------------------------------- *)
\* the callback of this step, when there is one
HasCb == ev.cb # <<>>
Cb == ev.cb[1]
\* the request frame sent in this step, when there is one
SentReq == ev.sent # <<>> /\ ev.sent[1].kind = "req"
SentDisc == ev.sent # <<>> /\ ev.sent[1].kind = "disc"
\* the slots of the request ring from the head on, oldest first
QueueSeq ==
  [k \in 1..s_req_count |->
     s_req_buf[(s_req_head + k - 1) % RDM_REQUEST_BUFFER_SIZE]]
\* a well-formed response: both start codes, a declared length that is the
\* number of bytes less the checksum, and the 16-bit sum of all bytes before
\* the checksum stored big-endian in the last two bytes
RECURSIVE SumOf(_)
SumOf(b) == IF b = <<>> THEN 0 ELSE Head(b) + SumOf(Tail(b))
WellFormed(b) ==
  /\ Len(b) >= 4
  /\ b[1] = 204 /\ b[2] = 1
  /\ Len(b) = b[3] + 2
  /\ SumOf(SubSeq(b, 1, Len(b) - 2)) % 65536 = b[Len(b) - 1] * 256 + b[Len(b)]

\* C1: a request that never gets a valid response is sent exactly
\* 1 + RDM_RETRY_COUNT = 3 times: never a fourth time, every wait that fails
\* before the third send leads to a retry and not to a callback, and the
\* wait after the third send ends in one callback with the failure sentinel
\* (no data, length 0) and the originator address and port of the request
\* that was sent.
C1_Inv ==
  /\ nsend <= 1 + RDM_RETRY_COUNT
  /\ (HasCb /\ Cb.null) =>
       /\ ev.attempts = 1 + RDM_RETRY_COUNT
       /\ Cb.data = <<>> /\ Cb.length = 0
       /\ Cb.dst_ip = Req(sentFor).src_ip
       /\ Cb.dst_port = Req(sentFor).src_port
C1_Step ==
  /\ (s_state = "SM_WAITING_RESPONSE" /\ s_state' = "SM_SENDING")
       => nsend < 1 + RDM_RETRY_COUNT /\ ev'.cb = <<>>
  /\ (s_state = "SM_WAITING_RESPONSE" /\ s_state' = "SM_IDLE"
      /\ ~rdm_validate_response(rxlog, Len(rxlog)))
       => /\ nsend = 1 + RDM_RETRY_COUNT
          /\ ev'.cb # <<>> /\ ev'.cb[1].null
C1_ThreeSendsThenFailure == [] C1_Inv /\ [][C1_Step]_vars
C1_Witness ==
  /\ HasCb /\ Cb.null /\ ev.attempts = 1 + RDM_RETRY_COUNT
  /\ Cb.dst_port = Req(2).src_port

\* C2: with the callback registered, every accepted request gets exactly one
\* callback: the accepted requests still without callback are exactly the
\* queued ones, a callback happens in exactly the steps that take one request
\* off the queue, and that step advances the head by one slot (modulo the
\* ring size) and decrements the count.
C2_Inv ==
  /\ Len(pending) = s_req_count
  /\ \A k \in 1..s_req_count :
       /\ QueueSeq[k].data = pending[k].data
       /\ QueueSeq[k].src_port = pending[k].src_port
C2_Step ==
  /\ (ev'.cb # <<>>) <=> (s_req_count' = s_req_count - 1)
  /\ (ev'.cb # <<>>) <=> (Len(pending') = Len(pending) - 1)
  /\ (ev'.cb # <<>>) =>
       /\ Len(ev'.cb) = 1
       /\ s_req_head' = (s_req_head + 1) % RDM_REQUEST_BUFFER_SIZE
       /\ pending' = Tail(pending)
       /\ s_state' = "SM_IDLE"
C2_OneCallbackPerRequest == [] C2_Inv /\ [][C2_Step]_vars
C2_Witness ==
  /\ HasCb /\ s_req_count > 0 /\ s_state = "SM_IDLE"
  /\ s_req_head = 1 /\ nextReq > RDM_REQUEST_BUFFER_SIZE

\* C3: a response that validates is handed to the callback verbatim: the
\* bytes and the byte count are those received since the request was sent,
\* the address and port are those of the request that was sent; and a wait
\* in which a well-formed response has been received ends by delivering it.
C3_Inv ==
  (HasCb /\ ~Cb.null) =>
     /\ Cb.data = rxlog /\ Cb.length = Len(rxlog)
     /\ Cb.dst_ip = Req(sentFor).src_ip
     /\ Cb.dst_port = Req(sentFor).src_port
C3_Step ==
  (s_state = "SM_WAITING_RESPONSE" /\ WellFormed(rxlog)
   /\ s_state' # "SM_WAITING_RESPONSE")
    => /\ ev'.cb # <<>> /\ ~ev'.cb[1].null
       /\ ev'.cb[1].data = rxlog
C3_ValidResponseVerbatim == [] C3_Inv /\ [][C3_Step]_vars
C3_Witness ==
  /\ HasCb /\ ~Cb.null /\ Cb.data = ValidResponse /\ Cb.length = 5
  /\ Cb.dst_port = Req(2).src_port /\ ev.attempts = 2

\* the call of rdm_enqueue_request made in this step, when there is one
IsEnq(e) == e.op = "enqueue"

\* C4: in every reachable state, wrapped queue indices and a transaction in
\* progress included, rdm_enqueue_request given a length of at most
\* RDM_MAX_PACKET_SIZE returns true when fewer than five requests are
\* queued and false when five are.
C4_Step ==
  (IsEnq(ev') /\ ev'.arg[1].length <= 257) =>
     /\ s_req_count < 5 => ev'.ret = <<TRUE>>
     /\ s_req_count = 5 => ev'.ret = <<FALSE>>
     /\ s_req_count <= 5
C4_EnqueueCapacity == [][C4_Step]_vars
C4_Witness ==
  /\ IsEnq(ev) /\ ev.ret = <<FALSE>> /\ ev.arg[1].length <= 257
  /\ s_req_count = 5 /\ s_req_head = s_req_tail /\ s_req_head > 0
  /\ s_state = "SM_WAITING_RESPONSE"

\* C5: rdm_enqueue_request given a length above RDM_MAX_PACKET_SIZE returns
\* false; every rejected enqueue, for length or for a full queue, leaves
\* head, tail, count, all slots and the transaction state as they were; and
\* no frame is ever sent, and no callback ever made, for a request that was
\* rejected.
C5_Step ==
  IsEnq(ev') =>
     /\ ev'.arg[1].length > 257 => ev'.ret = <<FALSE>>
     /\ ev'.ret = <<FALSE>> =>
          /\ UNCHANGED <<s_req_buf, s_req_head, s_req_tail, s_req_count,
                         s_state, s_retry, s_timeout_start_ms, s_active_idx,
                         s_resp_buf, s_resp_len, g_rdm_bus_busy>>
          /\ \A k \in 1..Len(pending') : pending'[k].data # ev'.arg[1].data
C5_Inv ==
  /\ \A i \in 0..4 : s_req_buf[i].length <= 257
  /\ SentReq => /\ ev.sent[1].length <= 257
                /\ \E k \in 1..Len(pending) : pending[k].data = ev.sent[1].data
  /\ HasCb => /\ ev.req # <<>>
              /\ Cb.dst_port # LongReq.src_port
C5_RejectedEnqueueNoEffect == [] C5_Inv /\ [][C5_Step]_vars
C5_Witness ==
  /\ IsEnq(ev) /\ ev.ret = <<FALSE>> /\ ev.arg[1].length = 258
  /\ s_req_count = 2 /\ s_state = "SM_WAITING_RESPONSE" /\ nsend = 2

\* C6: callbacks come in the order in which the requests were accepted: each
\* callback carries the address and port of the oldest accepted request that
\* has had none yet, also after the queue indices have wrapped.
C6_CallbacksInAcceptanceOrder ==
  HasCb => /\ ev.req # <<>>
           /\ Cb.dst_ip = ev.req[1].src_ip
           /\ Cb.dst_port = ev.req[1].src_port
           /\ \A k \in 1..Len(pending) : pending[k].src_port > Cb.dst_port
C6_Witness ==
  /\ HasCb /\ Cb.dst_port = Req(6).src_port
  /\ s_req_head = 1 /\ s_req_count = 1

\* C7: under the scheduling of SpecLive (rdm_task keeps being called and the
\* clock advances) every accepted request eventually gets its callback,
\* with the state machine back in SM_IDLE, whatever the bus answers:
\* silence, a valid response or a damaged one.
C7_Accepted(t) == \E k \in 1..Len(pending) : pending[k].data = t
C7_Answered(t) ==
  /\ HasCb /\ Cb.dst_ip = Req(t).src_ip /\ Cb.dst_port = Req(t).src_port
  /\ s_state = "SM_IDLE"
C7_EveryRequestAnswered ==
  \A t \in 1..LiveEnq : C7_Accepted(t) ~> C7_Answered(t)
C7_Witness ==
  /\ env = LiveScenario /\ C7_Answered(2) /\ Cb.null
  /\ s_disc_tod_count = 0 /\ s_discovery_last_ms > 0

\* C8: requests are processed strictly one at a time: every request frame
\* sent is the oldest accepted request that has had no callback yet, and a
\* send made while a transaction is in progress repeats the request of that
\* transaction.
C8_Inv ==
  /\ SentReq => /\ pending # <<>>
                /\ ev.sent[1].data = Head(pending).data
                /\ ev.sent[1].length = Head(pending).length
  /\ nsend > 0 => /\ pending # <<>>
                  /\ sentFor = Head(pending).data
                  /\ s_active_idx = s_req_head
C8_Step ==
  (nsend > 0 /\ ev'.sent # <<>>) =>
     /\ ev'.sent[1].kind = "req"
     /\ ev'.sent[1].data = sentFor
     /\ nsend' = nsend + 1
C8_OneRequestAtATime == [] C8_Inv /\ [][C8_Step]_vars
C8_Witness ==
  /\ SentReq /\ nsend = 2 /\ s_req_count = 3
  /\ ev.sent[1].data = Req(2).data

\* C9: host transactions and discovery never overlap: a discovery cycle
\* starts only from a call of rdm_task that finds the state machine idle and
\* the queue empty, no request frame is sent while a cycle runs, and no
\* discovery frame is sent while a transaction is in progress.
C9_Inv ==
  /\ pc # "main" => /\ s_state = "SM_IDLE" /\ s_req_count = 0 /\ nsend = 0
                    /\ s_discovery_active
  /\ SentDisc => s_state = "SM_IDLE" /\ nsend = 0 /\ pc # "main"
  /\ SentReq => pc = "main" /\ ~s_discovery_active
  /\ s_state # "SM_IDLE" => pc = "main" /\ ~s_discovery_active
C9_Step ==
  (pc = "main" /\ pc' # "main") =>
     s_state = "SM_IDLE" /\ s_req_count = 0 /\ nsend = 0
C9_NoOverlap == [] C9_Inv /\ [][C9_Step]_vars
C9_Witness ==
  /\ s_state = "SM_WAITING_RESPONSE" /\ pc = "main"
  /\ now - s_discovery_last_ms >= RDM_DISCOVERY_INTERVAL_MS
  /\ s_disc_tod_count = 2

\* C10: g_rdm_bus_busy is true from the first send of a transaction until
\* its callback has been made, the gap between a timed-out attempt and its
\* retry included, and throughout every discovery cycle.
C10_BusyDuringBusUse ==
  /\ nsend > 0 => g_rdm_bus_busy
  /\ s_state # "SM_IDLE" => g_rdm_bus_busy
  /\ pc # "main" => g_rdm_bus_busy
  /\ ev.sent # <<>> => g_rdm_bus_busy
C10_Witness ==
  /\ s_state = "SM_SENDING" /\ s_retry = 2 /\ nsend = 2 /\ g_rdm_bus_busy

\* C11: a pass of rdm_task that directly follows rdm_flush_tod() and finds
\* the state machine idle and the queue empty starts a discovery cycle,
\* whatever the clock reads and however recently the last cycle ended.
C11_FlushForcesDiscovery ==
  [][(ev.op = "flush_tod" /\ s_state = "SM_IDLE" /\ s_req_count = 0 /\ Tick)
       => (pc' = "disc_branch" /\ s_discovery_active')]_vars

\* a step in which a discovery cycle completes
CycleEnds == pc # "main" /\ pc' = "main"

\* C12 as stated: s_tod_changed becomes true only in the step that completes
\* a discovery cycle and becomes false only in rdm_get_tod; rdm_flush_tod,
\* rdm_tod_changed, rdm_enqueue_request and the transaction processing of
\* rdm_task leave it as it is.
C12_Original ==
  [][/\ (~s_tod_changed /\ s_tod_changed') => CycleEnds
     /\ (s_tod_changed /\ ~s_tod_changed') => ev'.op = "get_tod"
     /\ ev'.op \in {"flush_tod", "tod_changed", "enqueue"}
          => s_tod_changed' = s_tod_changed
     /\ (s_state # "SM_IDLE" \/ s_req_count > 0) /\ Tick
          => s_tod_changed' = s_tod_changed]_vars

\* C12 as amended: s_tod_changed becomes true only in the step that
\* completes a discovery cycle or in rdm_flush_tod, and becomes false only
\* in rdm_get_tod; rdm_tod_changed, rdm_enqueue_request and the transaction
\* processing of rdm_task leave it as it is.
C12_ChangedFlagWriters ==
  [][/\ (~s_tod_changed /\ s_tod_changed')
          => (CycleEnds \/ ev'.op = "flush_tod")
     /\ (s_tod_changed /\ ~s_tod_changed') => ev'.op = "get_tod"
     /\ ev'.op \in {"tod_changed", "enqueue"}
          => s_tod_changed' = s_tod_changed
     /\ (s_state # "SM_IDLE" \/ s_req_count > 0) /\ Tick
          => s_tod_changed' = s_tod_changed]_vars
\* a cycle has found both devices, the flag it set has been read and
\* cleared, and a flush has set it again
C12_Witness ==
  /\ ev.op = "flush_tod" /\ s_tod_changed /\ s_disc_tod_count = 2
  /\ s_tod_prev_count = 0 /\ s_discovery_last_ms = 0

\* the UIDs in the first count entries of a TOD array
TodSet(tod, count) == {TodCell(tod, i) : i \in 0..(count - 1)}

TodNow == [entries |-> TodSeq(s_tod, s_tod_count), count |-> s_tod_count]

\* C14: of two consecutive calls of rdm_get_tod, no discovery cycle having
\* begun and no flush having been made between them, the second returns the
\* entries and the count the first returned (and a third call would again);
\* rdm_tod_changed() is false from the first call on, so after the first
\* and after the second.
C14_GetTodIdempotent ==
  /\ Len(lastTod) = 2 => lastTod[2] = lastTod[1]
  /\ lastTod # <<>> => /\ ~s_tod_changed
                       /\ lastTod[Len(lastTod)] = TodNow
  /\ ev.op = "get_tod" => ev.ret = <<lastTod[Len(lastTod)]>>
\* the second call returns the two devices of the cycle before, a request
\* having been taken up between the calls
C14_Witness ==
  /\ ev.op = "get_tod" /\ Len(lastTod) = 2 /\ ev.ret[1].count = 2
  /\ ev.ret[1].entries = <<DeviceA, DeviceB>>
  /\ ~s_tod_changed /\ s_state = "SM_WAITING_RESPONSE"

\* the request ring, the transaction state machine and its response buffer
QueueAndTransaction ==
  <<s_req_buf, s_req_head, s_req_tail, s_req_count, s_state, s_retry,
    s_timeout_start_ms, s_active_idx, s_resp_buf, s_resp_len>>

\* C15: from rdm_flush_tod() until the next discovery cycle has completed
\* (s_discovery_last_ms is 0 exactly then and before the first cycle) the
\* table is empty and every rdm_get_tod returns count 0; the flush changes
\* neither the request queue nor the transaction in progress.
C15_Inv ==
  s_discovery_last_ms = 0 =>
    /\ s_tod_count = 0 /\ TodNow.count = 0 /\ TodNow.entries = <<>>
    /\ ev.op = "get_tod" => ev.ret[1].count = 0
C15_Step ==
  ev'.op = "flush_tod" =>
    /\ s_discovery_last_ms' = 0 /\ s_tod_count' = 0
    /\ QueueAndTransaction' = QueueAndTransaction
    /\ <<pending, nsend, g_rdm_bus_busy>>' = <<pending, nsend, g_rdm_bus_busy>>
C15_FlushEmptiesTable == [] C15_Inv /\ [][C15_Step]_vars
\* a cycle had found both devices; a flush was made while a request was
\* waiting for its response, and rdm_get_tod now returns an empty table
C15_Witness ==
  /\ ev.op = "get_tod" /\ ev.ret[1].count = 0 /\ s_discovery_last_ms = 0
  /\ s_disc_tod_count = 2 /\ s_state = "SM_WAITING_RESPONSE"
  /\ s_req_count = 1

\* the statics of rdm.c
ModuleState == <<QueueAndTransaction, rxVars, todVars, s_resp_cb,
                 g_rdm_bus_busy>>

\* C16: rdm_tod_changed() returns the changed flag and changes no module
\* state (flag, table, count, discovery timer, queue, transaction state),
\* so a second call made directly after returns the same value, and
\* rdm_get_tod returns after the call what it would have returned before.
C16_Step ==
  /\ ev'.op = "tod_changed" =>
       /\ ev'.ret = <<s_tod_changed>>
       /\ ModuleState' = ModuleState
       /\ TodNow' = TodNow /\ lastTod' = lastTod
  /\ (ev.op = "tod_changed" /\ ev'.op = "tod_changed") => ev'.ret = ev.ret
  /\ (ev.op = "tod_changed" /\ ev'.op = "get_tod") => ev'.ret = <<TodNow>>
C16_PeekIsPure == [][C16_Step]_vars
\* the peek reports the change made by the cycle that found both devices
\* while a request is waiting for its response
C16_Witness ==
  /\ ev.op = "tod_changed" /\ ev.ret = <<TRUE>> /\ s_tod_changed
  /\ s_tod_count = 2 /\ s_state = "SM_WAITING_RESPONSE"

\* C17: s_req_count is between 0 and RDM_REQUEST_BUFFER_SIZE in every
\* reachable state; a transaction is in progress only while the ring holds
\* its request, so that the decrement at its end never starts from 0.
C17_QueueCountInRange ==
  /\ s_req_count \in 0..RDM_REQUEST_BUFFER_SIZE
  /\ s_state # "SM_IDLE" => s_req_count >= 1
\* the ring is full while the second attempt of the oldest request is
\* waiting, and one more request has just been turned away
C17_Witness ==
  /\ s_req_count = RDM_REQUEST_BUFFER_SIZE
  /\ s_state = "SM_WAITING_RESPONSE" /\ s_retry = 1
  /\ ev.op = "enqueue" /\ ev.ret = <<FALSE>>
  /\ ev.arg[1].length <= RDM_MAX_PACKET_SIZE

\* C18: the response that was validated and is passed to the callback never
\* holds more bytes than its declared message length buf[2] plus the two
\* checksum bytes, whatever else the RX ring held at that pass of rdm_task.
C18_ResponseWithinDeclaredLength ==
  (HasCb /\ ~Cb.null) =>
     /\ Cb.length <= At(Cb.data, 2) + 2
     /\ Len(Cb.data) <= At(Cb.data, 2) + 2

\* C19: rdm_validate_response(buf, len) is true exactly for a well-formed
\* response: both start codes, len = buf[2] + 2, and the two bytes after the
\* message holding, high byte first, the sum modulo 65536 of the buf[2]
\* message bytes.  rdm_task applies it to s_resp_buf at every pass made in
\* SM_WAITING_RESPONSE: true leads to the callback with the data, false to
\* a further wait, a retry or the callback without data.
C19_ValidatesExactlyWellFormed ==
  /\ HasCb => (~Cb.null <=> WellFormed(s_resp_buf))
  /\ s_state \in {"SM_WAITING_RESPONSE", "SM_SENDING"}
       => ~WellFormed(s_resp_buf)
  /\ rdm_validate_response(s_resp_buf, s_resp_len) <=> WellFormed(s_resp_buf)

\* C20: in a discovery cycle a UID is decoded and its mute request sent only
\* when the branch reply received had at least 17 bytes, and an entry is
\* appended to the table only after such a mute request: a reply shorter
\* than 17 bytes adds no entry.
C20_ShortReplyAddsNothing ==
  [][/\ (pc = "disc_branch" /\ pc' = "disc_mute")
          => Len(rxlog) >= DISC_RESP_MIN_LEN
     /\ (pc # "main" /\ s_disc_tod_count' > s_disc_tod_count)
          => (pc = "disc_mute" /\ d_uid # Zeros(6))]_vars

\* C21: the state machine is in SM_SENDING between two passes only for a
\* retry, and then the response collected was not a valid one, the response
\* timeout had run out, and this is the first or the second retry
\* (RDM_RETRY_COUNT = 2); the retry counter is one less than the number of
\* sends made once the retry is sent; every frame sent for a request, first
\* attempt or retry, carries the bytes and the length the oldest accepted
\* request was enqueued with, whatever was enqueued since.
C21_RetryResendsSameRequest ==
  /\ s_state = "SM_SENDING" =>
       /\ s_retry \in 1..RDM_RETRY_COUNT /\ nsend = s_retry
       /\ ~WellFormed(s_resp_buf)
       /\ ~rdm_validate_response(s_resp_buf, s_resp_len)
       /\ Elapsed(now, s_timeout_start_ms) >= RDM_RESPONSE_TIMEOUT_MS
  /\ s_state = "SM_WAITING_RESPONSE" =>
       s_retry \in 0..RDM_RETRY_COUNT /\ nsend = s_retry + 1
  /\ SentReq =>
       /\ pending # <<>>
       /\ ev.sent[1].data = Head(pending).data
       /\ ev.sent[1].length = Head(pending).length
       /\ ev.sent[1].data = sentFor
\* the second retry of the first request goes out while two requests
\* enqueued after it are waiting
C21_Witness ==
  /\ SentReq /\ s_retry = RDM_RETRY_COUNT /\ nsend = 3 /\ s_req_count = 3
  /\ ev.sent[1].data = Req(1).data /\ ev.sent[1].length = Req(1).length

\* C22: while a discovery cycle runs, at least RDM_DISCOVERY_INTERVAL_MS
\* have passed since the time kept in s_discovery_last_ms, which is the
\* clock reading taken when the previous cycle had finished, 0 (boot) before
\* the first cycle and 0 after a flush; and a call of rdm_task that finds
\* the state machine idle, the queue empty and that much time passed starts
\* a cycle, while one that finds less time passed starts none.
C22_Inv ==
  pc # "main" =>
    (now - s_discovery_last_ms) % U32 >= RDM_DISCOVERY_INTERVAL_MS
C22_Step ==
  /\ CycleEnds => s_discovery_last_ms' = now'
  /\ (pc = "main" /\ s_state = "SM_IDLE" /\ s_req_count = 0 /\ Tick) =>
       (pc' = "disc_branch"
          <=> (now' - s_discovery_last_ms) % U32 >= RDM_DISCOVERY_INTERVAL_MS)
  /\ (pc = "main" /\ pc' # "main") =>
       /\ s_state = "SM_IDLE" /\ s_req_count = 0
       /\ (now' - s_discovery_last_ms) % U32 >= RDM_DISCOVERY_INTERVAL_MS
C22_DiscoveryEveryInterval == [] C22_Inv /\ [][C22_Step]_vars
\* the second cycle has begun, no flush made since the first had finished
C22_Witness ==
  /\ pc = "disc_branch" /\ d_attempt = 0
  /\ s_discovery_last_ms > RDM_DISCOVERY_INTERVAL_MS
  /\ now >= s_discovery_last_ms + RDM_DISCOVERY_INTERVAL_MS

\* the table as it was when the cycle now running, or the last one, began
TodBefore == [entries |-> TodSeq(s_tod_prev, s_tod_prev_count),
              count |-> s_tod_prev_count]

\* what C23 says of a discovery cycle: the table is saved when the cycle
\* begins, the saved table, the count and the flag are left alone while it
\* runs, and when it has finished the flag is true if the new table differs
\* from the saved one in count or in a byte, and as it was otherwise
C23_Cycle ==
  /\ (pc = "main" /\ pc' # "main") => TodBefore' = TodNow
  /\ (pc # "main" /\ pc' # "main") =>
       /\ TodBefore' = TodBefore
       /\ s_tod_count' = s_tod_count /\ s_tod_changed' = s_tod_changed
  /\ CycleEnds =>
       /\ TodBefore' = TodBefore
       /\ s_tod_changed' = (s_tod_changed \/ TodNow' # TodBefore)

UidOf(reply) ==
  IF Len(reply) >= 17
    THEN [k \in 1..6 |-> (reply[2 * k] % 16) + 16 * (reply[2 * k + 1] % 16)]
    ELSE <<0, 0, 0, 0, 0, 0>>

\* what the rdm_bus_receive that returns in this step returns: the bytes
\* collected so far and the byte taken from the ring in this step, if any
Received ==
  IF s_rx_head # s_rx_tail
    THEN Append(d_resp, RxCell(Ring, s_rx_head)) ELSE d_resp

\* the table that the running discovery cycle has built so far
DiscTable == TodSeq(s_tod, s_disc_tod_count)

\* the destination UID field of the frame sent by this step
SentDest == SubSeq(ev'.sent[1].data, 4, 9)

\* C24: within a discovery cycle every branch reply is followed by a mute
\* command whose destination UID is the UID decoded from the reply; the
\* answer to the mute is taken off the bus whole and thrown away before the
\* next branch request is sent (or the cycle ends); and the UIDs are
\* appended to the table one per reply, in the order of the replies, the
\* table starting empty.
C24_Step ==
  /\ (pc = "main" /\ pc' # "main") => DiscTable' = <<>>
  /\ (pc = "disc_branch" /\ pc' = "disc_branch") =>
       DiscTable' = DiscTable /\ ev'.sent = <<>>
  /\ (pc = "disc_branch" /\ pc' = "disc_mute") =>
       /\ Len(Received) >= 7
       /\ ev'.sent # <<>> /\ ev'.sent[1].data = build_disc_mute(UidOf(Received))
       /\ SentDest = UidOf(Received)
       /\ d_uid' = UidOf(Received)
       /\ DiscTable' = DiscTable
  /\ (pc = "disc_branch" /\ pc' = "main") =>
       Len(Received) < 7 /\ ev'.sent = <<>>
  /\ (pc = "disc_mute" /\ pc' = "disc_mute") =>
       DiscTable' = DiscTable /\ d_uid' = d_uid /\ ev'.sent = <<>>
  /\ (pc = "disc_mute" /\ pc' # "disc_mute") =>
       /\ wire = <<>> /\ Received = rxlog
       /\ s_rx_head' = s_rx_tail' /\ d_resp' = <<>>
       /\ DiscTable' = Append(DiscTable, d_uid)
       /\ pc' = "disc_branch" =>
            /\ ev'.sent # <<>>
            /\ ev'.sent[1].data =
                 build_disc_unique_branch(s_disc_lower, s_disc_upper)
  /\ CycleEnds => TodNow'.entries = DiscTable'
C24_MuteAndOrder == [][C24_Step]_vars
\* the second reply of a cycle came from device A after that of device B;
\* the mute sent to A has been answered and all but the last byte of the
\* answer has been collected
C24_Witness ==
  /\ pc = "disc_mute" /\ d_attempt = 1 /\ d_uid = DeviceA
  /\ DiscTable = <<DeviceB>>
  /\ wire = <<>> /\ rxlog = ValidResponse
  /\ Len(d_resp) = Len(ValidResponse) - 1

\* C25: every discovery cycle terminates, provided the clock advances.  It
\* ends at the first branch request that gets no reply (fewer than 7 bytes)
\* within the receive window; every reply is followed by one mute command
\* and then, if fewer than 64 branch requests were made, by the next branch
\* request, so that a cycle makes at most 64 branch requests and at most
\* 64 mute commands, whatever the bus returns.
C25_Inv ==
  /\ d_attempt \in 0..(DISC_MAX_ATTEMPTS - 1)
  /\ pc # "main" => s_disc_tod_count = d_attempt
  /\ s_disc_tod_count <= DISC_MAX_ATTEMPTS
C25_Step ==
  /\ (pc = "main" /\ pc' # "main") =>
       pc' = "disc_branch" /\ d_attempt' = 0 /\ ev'.sent # <<>>
  /\ (pc # "main" /\ pc' = pc) => d_attempt' = d_attempt /\ ev'.sent = <<>>
  /\ (pc = "disc_branch" /\ pc' # "disc_branch") =>
       /\ pc' = "main" <=> Len(Received) < 7
       /\ pc' = "main" => ev'.sent = <<>>
       /\ pc' = "disc_mute" => d_attempt' = d_attempt /\ Len(ev'.sent) = 1
  /\ (pc = "disc_mute" /\ pc' # "disc_mute") =>
       IF d_attempt + 1 < 64
         THEN pc' = "disc_branch" /\ d_attempt' = d_attempt + 1
              /\ Len(ev'.sent) = 1
         ELSE pc' = "main" /\ ev'.sent = <<>>
C25_CycleTerminates ==
  /\ [] C25_Inv /\ [][C25_Step]_vars
  /\ (pc # "main") ~> (pc = "main")
\* a cycle has ended after its 64th branch request and 64th mute command
C25_Witness ==
  /\ pc = "main" /\ s_tod_count = 64 /\ s_disc_tod_count = 64
  /\ ~s_discovery_active

\* the order of the steps of rdm_bus_send as C26 gives it
C26_Order ==
  <<"busy", "dir_tx", "break_on", "break_off", "mab", "write", "tx_wait",
    "dir_rx", "settle", "flush">>

\* C26: the steps that an rdm_bus_send has taken are always the first ones
\* of: bus-busy set, line driver to transmit, break asserted, break
\* released, mark-after-break gap, bytes written, wait for transmit
\* complete, line driver to receive, settle delay, RX queue flushed; the
\* flag is set from the first step on; and once rdm_bus_send has returned,
\* what has been collected is made of bytes pushed after the flush only:
\* none of the bytes that the interrupt pushed before the flush is in it.
C26_SendOrderAndFlush ==
  /\ \E k \in 0..Len(C26_Order) : tx.steps = SubSeq(C26_Order, 1, k)
  /\ tx.steps # <<>> => g_rdm_bus_busy
  /\ Len(tx.steps) = Len(C26_Order) =>
       /\ Len(d_resp) <= Len(rxlog)
       /\ d_resp = SubSeq(rxlog, 1, Len(d_resp))
       /\ Len(d_resp) + rx_available(Ring) = Len(rxlog)
\* the interrupt pushed the three bytes of the echo while the frame was
\* sent; the send has returned and the whole answer, and nothing else, has
\* been collected
C26_Witness ==
  /\ Len(tx.steps) = Len(C26_Order) /\ tx.echo = SendEcho
  /\ d_resp = ValidResponse /\ wire = <<>> /\ s_rx_head = s_rx_tail

\* the unread bytes of the ring, oldest first
Unread(r) ==
  [i \in 1..rx_available(r) |-> RxCell(r, (r.head + i - 1) % RDM_RX_BUF_SIZE)]

\* the place in t after the first x at or after place j, and a place
\* beyond t if there is none
After(t, x, j) ==
  IF j > Len(t) THEN Len(t) + 2
  ELSE IF t[j] = x THEN j + 1
  ELSE LET c == {k \in (j + 1)..Len(t) : t[k] = x}
       IN IF c = {} THEN Len(t) + 2
          ELSE (CHOOSE k \in c : \A m \in c : k <= m) + 1

\* the place in t after s[lo..hi] has been found in it, element by
\* element, each as early as possible, beginning at place j
RECURSIVE Found(_, _, _, _, _)
Found(s, lo, hi, t, j) ==
  IF lo = hi THEN After(t, s[lo], j)
  ELSE LET mid == (lo + hi) \div 2
           m == Found(s, lo, mid, t, j)
       IN IF m > Len(t) + 1 THEN m ELSE Found(s, mid + 1, hi, t, m)

\* whether s is t with some of its elements left out
IsSubseq(s, t) == s = <<>> \/ Found(s, 1, Len(s), t, 1) <= Len(t) + 1

\* the ring has no free cell: the cell after tail is head
RingFull == (s_rx_tail + 1) % RDM_RX_BUF_SIZE = s_rx_head
\* this step is a call of rx_push, of rx_pop
PushStep == Len(rxlog') = Len(rxlog) + 1
PopStep == Len(d_resp') = Len(d_resp) + 1

\* C27: an rx_push that finds the ring full leaves head, tail and the
\* unread bytes as they are; any other rx_push adds its byte behind the
\* unread ones and changes none of them; rx_pop returns the oldest unread
\* byte; so the bytes popped, followed by the unread ones, are always the
\* bytes pushed with some of them left out, in the order they were pushed.
C27_Inv == IsSubseq(d_resp \o Unread(Ring), rxlog)
C27_Step ==
  /\ (PushStep /\ RingFull) =>
       /\ s_rx_head' = s_rx_head /\ s_rx_tail' = s_rx_tail
       /\ Unread(Ring)' = Unread(Ring)
  /\ (PushStep /\ ~RingFull) =>
       /\ s_rx_head' = s_rx_head
       /\ Unread(Ring)' = Append(Unread(Ring), rxlog'[Len(rxlog')])
  /\ PopStep =>
       /\ s_rx_tail' = s_rx_tail
       /\ Unread(Ring) = <<d_resp'[Len(d_resp')]>> \o Unread(Ring)'
C27_FullRingDropsNewByte == [] C27_Inv /\ [][C27_Step]_vars
\* two bytes of a burst were popped while it arrived, the ring then filled
\* up and the last byte of the burst was dropped; a third byte was popped
\* afterwards
C27_Witness ==
  /\ Len(rxlog) = RDM_RX_BUF_SIZE + 2 /\ wire = <<>>
  /\ d_resp = <<1, 2, 3>>
  /\ rx_available(Ring) = RDM_RX_BUF_SIZE - 2
  /\ Unread(Ring)[RDM_RX_BUF_SIZE - 2] = (RDM_RX_BUF_SIZE + 1) % 256

\* the ring keeps the first cap bytes pushed into the empty ring when none
\* is popped in between, and they are then popped in the order they came
Retains(cap) ==
  /\ (d_resp = <<>> /\ Len(rxlog) <= cap) => Unread(Ring) = rxlog
  /\ (wire = <<>> /\ Len(d_resp) + rx_available(Ring) = cap) =>
       d_resp \o Unread(Ring) = SubSeq(rxlog, 1, cap)
\* an rx_push drops its byte exactly when cap bytes are unread
DropsAt(cap) ==
  PushStep => ((UNCHANGED rxVars) <=> rx_available(Ring) = cap)

\* C28 as stated: the ring holds 512 bytes.
C28_Original ==
  [] Retains(RDM_RX_BUF_SIZE) /\ [][DropsAt(RDM_RX_BUF_SIZE)]_vars

\* C28 as amended: the RX byte queue has 512 cells and holds 511 bytes:
\* when 511 bytes are pushed with no pop or flush in between, all 511 are
\* retained and can afterwards be popped in order; a byte is dropped only
\* when 511 bytes are already unread.
C28_RingHolds511 ==
  [] Retains(RDM_RX_BUF_SIZE - 1) /\ [][DropsAt(RDM_RX_BUF_SIZE - 1)]_vars
\* a whole burst has arrived with nothing popped in between, and the 511
\* bytes that were kept have then been popped
C28_Witness ==
  /\ wire = <<>> /\ Len(rxlog) = RDM_RX_BUF_SIZE + 2
  /\ s_rx_head = s_rx_tail
  /\ d_resp = SubSeq(rxlog, 1, RDM_RX_BUF_SIZE - 1)

\* this step is artnet_recv handling an ArtRDM datagram
ArtRdmStep == nextReq' = nextReq + 1
\* the RDM payload of the datagram handled in this step is longer than the
\* largest RDM packet
LongPayload == dgram'[1].tot_len - 12 > 257

\* C29: an ArtRDM datagram with more than 257 payload bytes is rejected as
\* too long: it changes nothing in the request queue, no slot ever holds
\* its payload and no frame sent on the bus carries it.
C29_Inv ==
  /\ \A i \in DOMAIN s_req_buf :
       s_req_buf[i].in_use => s_req_buf[i].data # LongReq.data
  /\ SentReq => ev.sent[1].data # LongReq.data
C29_Step ==
  (ArtRdmStep /\ LongPayload) =>
    /\ UNCHANGED <<s_req_buf, s_req_head, s_req_tail, s_req_count>>
    /\ ev'.ret # <<TRUE>>
C29_LongPayloadRejected == [] C29_Inv /\ [][C29_Step]_vars

\* C30: an ArtRDM datagram handled in MODE_DMX leaves the queue and the
\* transaction as they are and makes no call of rdm_enqueue_request; in
\* MODE_RDM a datagram with a payload makes exactly one call, with the
\* payload, the address and the port of the sender; a datagram without
\* payload makes none; and a call that is refused changes nothing in the
\* queue and the transaction and produces no callback and no frame.
C30_Step ==
  ArtRdmStep =>
    LET d == dgram'[1] IN
    /\ s_mode' = s_mode
    /\ s_mode = "MODE_DMX" =>
         /\ ev'.op # "enqueue"
         /\ QueueAndTransaction' = QueueAndTransaction
    /\ ev'.op = "enqueue" <=> (s_mode = "MODE_RDM" /\ d.tot_len > 12)
    /\ ev'.op = "enqueue" =>
         /\ ev'.arg[1].data = d.payload
         /\ ev'.arg[1].src_ip = d.src_ip
         /\ ev'.arg[1].src_port = d.src_port
         /\ ev'.ret = <<s_req_count < RDM_REQUEST_BUFFER_SIZE>>
    /\ ev'.ret # <<TRUE>> =>
         /\ QueueAndTransaction' = QueueAndTransaction
         /\ ev'.cb = <<>> /\ ev'.sent = <<>>
    /\ ev'.ret = <<TRUE>> =>
         /\ s_req_count' = s_req_count + 1
         /\ s_req_buf'[s_req_tail].src_ip = d.src_ip
         /\ s_req_buf'[s_req_tail].src_port = d.src_port
C30_ArtRdmOnlyInRdmMode == [][C30_Step]_vars
\* the first datagram was not queued or its request is done with; the
\* second is the oldest one outstanding, and in RDM mode the sixth has
\* just been queued with the port of its sender
C30_Witness ==
  /\ s_mode = "MODE_RDM" /\ ev.op = "enqueue" /\ ev.ret = <<TRUE>>
  /\ dgram # <<>> /\ dgram[1].src_ip = Req(6).src_ip
  /\ s_req_buf[(s_req_tail + RDM_REQUEST_BUFFER_SIZE - 1)
                 % RDM_REQUEST_BUFFER_SIZE].src_port = Req(6).src_port
  /\ pending # <<>> /\ pending[1].data = Req(2).data

\* C31: at every return from rdm_task that leaves the transaction state
\* idle, g_rdm_bus_busy is false: the call of rdm_task in which a
\* transaction completes (valid response or retries exhausted) or a
\* discovery cycle ends clears the flag before it returns, so the flag is
\* never set while the engine holds no transaction and runs no discovery.
C31_IdleMeansBusFree ==
  (pc = "main" /\ s_state = "SM_IDLE") => ~g_rdm_bus_busy
\* a transaction has just completed, after a discovery cycle that ended
\* earlier: the engine is idle and the bus is free
C31_Witness ==
  /\ pc = "main" /\ s_state = "SM_IDLE" /\ ~g_rdm_bus_busy
  /\ HasCb /\ s_discovery_last_ms > 0

\* the time that has passed since the rdm_bus_send of the last attempt
\* returned
SinceSend == Elapsed(now, sentAt)
\* the bytes collected so far for the attempt under way validate
RespValid == rdm_validate_response(s_resp_buf, s_resp_len)

\* C32: a retry or a failure callback happens only in a pass of rdm_task at
\* which at least RDM_RESPONSE_TIMEOUT_MS have passed since the send of the
\* attempt, and only when the bytes collected do not validate: an invalid
\* response received earlier never brings an early retry.  A response that
\* validates at a pass, the pass at which the timeout has elapsed included,
\* completes the transaction at that pass with the success callback: no
\* wait goes on, no retry is made and no failure is reported with a
\* response that validates.
C32_TimeoutGatesRetry ==
  /\ (pc = "main" /\ s_state = "SM_SENDING") =>
       (SinceSend >= RDM_RESPONSE_TIMEOUT_MS /\ ~RespValid)
  /\ (HasCb /\ Cb.null) =>
       (SinceSend >= RDM_RESPONSE_TIMEOUT_MS /\ ~RespValid)
  /\ s_state = "SM_WAITING_RESPONSE" => ~RespValid
  /\ (HasCb /\ ~Cb.null) => (RespValid /\ s_state = "SM_IDLE")
\* the second attempt of a request, made after a timeout, is answered by a
\* response that validates at the pass at which its timeout has elapsed: the
\* transaction completes with the response
C32_Witness ==
  /\ HasCb /\ ~Cb.null /\ ev.attempts = 2
  /\ SinceSend >= RDM_RESPONSE_TIMEOUT_MS
  /\ s_state = "SM_IDLE"

\* C33: each send attempt starts with an empty response buffer and a
\* flushed RX ring, so what was collected during an earlier attempt or an
\* earlier transaction, and what arrived late and was still queued when the
\* next send began, is no part of a later response: while a response is
\* awaited, the bytes collected followed by the bytes queued are the bytes
\* that the bus has delivered since the send, and the response handed to
\* the callback is made of these.
C33_AttemptStartsClean ==
  /\ SentReq => (s_resp_len = 0 /\ s_resp_buf = <<>> /\ s_rx_head = s_rx_tail)
  /\ s_state = "SM_WAITING_RESPONSE" =>
       /\ s_resp_len = Len(s_resp_buf)
       /\ s_resp_buf \o Unread(Ring) = rxlog
  /\ (HasCb /\ ~Cb.null) =>
       /\ Cb.length <= Len(rxlog)
       /\ Cb.data = SubSeq(rxlog, 1, Cb.length)
\* a retry has just been sent while the response buffer still held bytes of
\* the attempt before and the ring a byte that came in after them: the
\* buffer is empty and the ring flushed
C33_Witness ==
  /\ SentReq /\ nsend >= 2
  /\ ev.sent[1].stale.collected > 0 /\ ev.sent[1].stale.queued > 0
  /\ s_resp_len = 0 /\ s_rx_head = s_rx_tail

\* what a slot of the request ring stores of a request
Stored(slot) == [data |-> slot.data, length |-> slot.length,
                 src_ip |-> slot.src_ip, src_port |-> slot.src_port]

\* C34: from its acceptance until its callback a request keeps its stored
\* bytes, length, src_ip and src_port, whatever rdm_enqueue_request calls
\* and passes of rdm_task follow, also when the queue is full and the
\* indices have wrapped: in every state the slots from the head on hold,
\* oldest first, exactly the accepted requests whose callback is
\* outstanding, each as it was accepted.
C34_StoredRequestsUntouched ==
  /\ Len(pending) = s_req_count
  /\ \A k \in 1..Len(pending) : Stored(QueueSeq[k]) = pending[k]
\* the queue is full and its indices have wrapped; an enqueue has just been
\* refused, and the five slots hold requests 2 to 6 as they were accepted
C34_Witness ==
  /\ s_req_count = RDM_REQUEST_BUFFER_SIZE
  /\ s_req_head = 1 /\ s_req_tail = 1
  /\ ev.op = "enqueue" /\ ev.ret = <<FALSE>> /\ ev.arg = <<Req(7)>>
  /\ pending = [k \in 1..5 |-> Req(k + 1)]
  /\ Stored(s_req_buf[0]) = Req(6)

\* C35: under every interleaving of the receive interrupt with rx_pop,
\* rx_available and rx_flush in the main context, the interrupt running
\* between any two memory accesses of these, s_rx_head and s_rx_tail stay
\* within 0..511; the bytes that rx_pop has returned since the last flush
\* began, followed by the bytes still queued, are bytes pushed since that
\* flush began, in push order and none of them twice; hence after rx_flush
\* has returned the queue holds only bytes pushed after it began.
C35_IrqSafeRing ==
  /\ s_rx_head \in 0..(RDM_RX_BUF_SIZE - 1)
  /\ s_rx_tail \in 0..(RDM_RX_BUF_SIZE - 1)
  /\ rxCtx.op # "flush" => IsSubseq(d_resp \o Unread(Ring), rxlog)
  /\ (rxCtx.op = "none" /\ rxCtx.last = "flush" /\ rxCtx.irqs = 0)
       => (s_rx_head = 0 /\ Unread(Ring) = rxlog)
\* rx_flush has returned after the interrupt pushed bytes between its two
\* stores, the read index standing at 1 before: of the two bytes pushed
\* since the flush began the ring holds the second
C35_Witness ==
  /\ rxCtx.op = "none" /\ rxCtx.last = "flush" /\ rxCtx.irqs = 2
  /\ s_rx_head = 0 /\ s_rx_tail = 1
  /\ Len(rxlog) = 3 /\ Unread(Ring) = <<rxlog[3]>>

\* C36: a DHCPREQUEST of a client other than the one to which the address
\* was acknowledged last, that one not having sent a DHCPRELEASE since, is
\* answered with DHCPNAK; the address is never acknowledged to a second
\* client without a release in between.
C36_LeaseHeldUntilRelease ==
  (/\ dhcp.msg # <<>> /\ dhcp.msg[1] \in DhcpRequests
   /\ MsgType(dhcp.msg[1]) = DHCP_REQUEST
   /\ dhcp.held # <<>> /\ dhcp.held[1] # dhcp.msg[1].chaddr
   /\ dhcp.reply # <<>>)
    => dhcp.reply[1].type = DHCP_NAK

\* the slots of the request ring that hold a queued request: s_req_count
\* slots from the head on
QueueSlots ==
  {(s_req_head + k) % RDM_REQUEST_BUFFER_SIZE : k \in 0..(s_req_count - 1)}

\* C37: in every state the request ring is consistent: s_req_tail is
\* (s_req_head + s_req_count) mod 5, and a slot has in_use set exactly
\* when it is one of the s_req_count slots from s_req_head on.
C37_RingConsistent ==
  /\ s_req_tail = (s_req_head + s_req_count) % RDM_REQUEST_BUFFER_SIZE
  /\ \A i \in 0..(RDM_REQUEST_BUFFER_SIZE - 1) :
       s_req_buf[i].in_use <=> i \in QueueSlots

\* three requests queued across the wrap of the ring, after three others
\* have completed
C37_Witness ==
  /\ s_req_head = 3 /\ s_req_count = 3 /\ s_req_tail = 1
  /\ QueueSlots = {3, 4, 0}
  /\ s_req_buf[0].in_use /\ ~s_req_buf[1].in_use /\ ~s_req_buf[2].in_use
  /\ s_state = "SM_WAITING_RESPONSE"

\* C38: while a transaction is being sent or awaits its response the queue
\* holds at least one request, the active index is the queue head and the
\* retry count is at most RDM_RETRY_COUNT; rdm_task returns in the sending
\* state only with a retry pending (s_retry >= 1).
C38_ActiveTransaction ==
  /\ s_state \in {"SM_SENDING", "SM_WAITING_RESPONSE"} =>
       /\ s_req_count >= 1
       /\ s_active_idx = s_req_head
       /\ s_retry <= RDM_RETRY_COUNT
  /\ (pc = "main" /\ s_state = "SM_SENDING") => s_retry >= 1

\* the last retry of a request at a wrapped head is pending, a second
\* request waiting behind it
C38_Witness ==
  /\ pc = "main" /\ s_state = "SM_SENDING"
  /\ s_retry = RDM_RETRY_COUNT
  /\ s_req_count = 2 /\ s_req_head = 2 /\ s_active_idx = 2

\* C39: the collected response length is at most RDM_MAX_PACKET_SIZE; the
\* place that rdm_bus_receive writes next in run_discovery_cycle is within
\* the max_len of 257 bytes it was given, so that it never writes more than
\* max_len bytes; the counts of the tables s_disc_tod_count and s_tod_count
\* are at most 64, whatever the bus delivers.
C39_BuffersInBounds ==
  /\ s_resp_len <= RDM_MAX_PACKET_SIZE
  /\ Len(s_resp_buf) <= RDM_MAX_PACKET_SIZE
  /\ Len(d_resp) < RDM_MAX_PACKET_SIZE
  /\ s_disc_tod_count <= DISC_MAX_ATTEMPTS
  /\ s_tod_count <= DISC_MAX_ATTEMPTS
  /\ DISC_MAX_ATTEMPTS <= RDM_TOD_MAX_DEVICES

\* the response buffer is full while the ring still holds bytes of the
\* same answer
C39_Witness ==
  /\ s_resp_len = RDM_MAX_PACKET_SIZE
  /\ rx_available(Ring) = 2
  /\ wire = <<>>

\* C40: the packet that build_disc_unique_branch builds has 38 bytes for
\* any bounds, the one that build_disc_mute builds has 26 bytes for any
\* UID; each starts with 0xCC 0x01, its length byte is its length less 2,
\* its last two bytes are the sum modulo 65536 of all bytes before them,
\* high byte first, and rdm_validate_response accepts it.
C40_BuiltPacketsWellFormed ==
  ev.op = "build" =>
    LET pkt == ev.sent[1].data IN
    /\ Len(pkt) = (IF Len(ev.arg) = 2 THEN 38 ELSE 26)
    /\ ev.sent[1].length = Len(pkt)
    /\ WellFormed(pkt)
    /\ rdm_validate_response(pkt, Len(pkt))

\* the branch request over the whole range of UIDs: the sum of its 36
\* bytes is 3330 = 13 * 256 + 2
C40_Witness ==
  /\ ev.op = "build" /\ ev.arg = <<s_disc_lower, s_disc_upper>>
  /\ Len(ev.sent[1].data) = 38
  /\ SubSeq(ev.sent[1].data, 37, 38) = <<13, 2>>

====
